---- MODULE Spec2Model ----
(***************************************************************************)
(* Model of the live trading loop of money-hunter-pro (src/server.ts):     *)
(* the timer-driven runTradingLoop with its await points, the HTTP         *)
(* handlers that share its state (POST /api/config, POST /api/toggle), and *)
(* the exchange the loop talks to.                                         *)
(*                                                                         *)
(* Units.  Ratios (uplRatio, beTriggerRoi, TAKER_FEE_RATE) are integers in *)
(* units of 1e-4; protective prices are integers in units of 1e-4 of the   *)
(* price unit; times are milliseconds; contract values are in units of     *)
(* 1e-2; initialRisk is in percent.  JavaScript numbers are doubles: the   *)
(* model computes the exact rational value.                                *)
(*                                                                         *)
(* A step of a scan is everything JavaScript runs between two awaits that  *)
(* yield to the event loop (run to completion): a handler or a timer can   *)
(* interleave only at those awaits.                                        *)
(***************************************************************************)
EXTENDS Integers, Sequences, FiniteSets, TLC

VARIABLES
    config,             \* server.ts:20   let config
    isRunning,          \* server.ts:21
    marketData,         \* server.ts:22   null or coin -> SingleMarketData
    accountData,        \* server.ts:23   null or AccountContext
    latestDecisions,    \* server.ts:24   coin -> action of the latest decision
    lastAnalysisTime,   \* server.ts:27
    isProcessing,       \* server.ts:28
    protectedPositions, \* server.ts:32   Set<string> of posId
    scan,               \* the invocations of runTradingLoop: position and locals
    now,                \* Date.now()
    exchange,           \* the positions held at the exchange, by position key
    out,                \* what the latest step did: collaborator call, logs
    analysis,           \* a call of analyzeCoin studied on its own
    algo,               \* a call of placeAlgoStrategy studied on its own
    backtest,           \* the locals of a POST /api/backtest/run request
    sizer,              \* a computation of the contract count studied on its own
    feed                \* server.ts:24-26: the decision feed and the log buffer on their own

vars == <<config, isRunning, marketData, accountData, latestDecisions,
          lastAnalysisTime, isProcessing, protectedPositions, scan, now,
          exchange, out, analysis, algo, backtest, sizer, feed>>

\* the calls and the request that the live loop does not touch
sideVars == <<analysis, algo, backtest, sizer, feed>>

\* no such call or request is in progress
Idle == [phase |-> "none"]

\* the state of the server process (everything but the clock, the exchange
\* and the record of the latest step)
progVars == <<config, isRunning, marketData, accountData, latestDecisions,
              lastAnalysisTime, isProcessing, protectedPositions, scan>>

-----------------------------------------------------------------------------
(* Bounds of the model *)

\* invocations of runTradingLoop that can exist at once (timer firings)
MaxScans == 2
\* clock quanta after the start of the process
MaxClock == 1
\* positions the exchange holds at once
MaxOpen == 1

(* Program constants *)

TAKER_FEE_RATE == 5
TICK_MS == 2000
BE_TRIGGER_ROI == 780
LONG_PROTECT == 10005
SHORT_PROTECT == 9995

\* a nullable snapshot (server.ts:22-23): null, or a value
Null == [null |-> TRUE, v |-> <<>>]
Some(v) == [null |-> FALSE, v |-> v]
Slots == 1..MaxScans
Coins == {"BTC", "ETH"}
CoinOrder == <<"BTC", "ETH">>
Sides == {"long", "short"}
Actions == {"BUY", "SELL", "HOLD", "CLOSE", "UPDATE_TPSL"}

InstIdOf(coin) == coin \o "-USDT-SWAP"

\* server.ts:60   const posId = `${pos.instId}-${pos.posSide}`
PosId(pos) == pos.instId \o "-" \o pos.posSide

\* the positions the account may hold, in the order the exchange lists them
KeyOrder == <<[coin |-> "BTC", posSide |-> "long"], [coin |-> "ETH", posSide |-> "short"]>>

KeyOf(k) == PosId([instId |-> InstIdOf(k.coin), posSide |-> k.posSide])

Keys == {KeyOf(KeyOrder[i]) : i \in 1..Len(KeyOrder)}

\* ticker.last of the mock market (okxService.ts:211, 223), also used live
LastPx(coin) == IF coin = "BTC" THEN 65000 ELSE 3500

\* contract value per coin in 1e-2 (constants.ts:7-8)
CtValOf(coin) == IF coin = "BTC" THEN 1 ELSE 10

\* unrealized ROI the exchange may report: just below and just at the level
\* where the net ROI reaches the breakeven trigger
UplLevels == {BE_TRIGGER_ROI + 2 * TAKER_FEE_RATE - 1, BE_TRIGGER_ROI + 2 * TAKER_FEE_RATE}

\* a slot of the exchange's position table: closed, or open with an ROI
Closed == [open |-> FALSE, upl |-> 0]
OpenAt(u) == [open |-> TRUE, upl |-> u]

-----------------------------------------------------------------------------
(* Configuration *)

\* a StrategyProfile (types.ts:88-100) with the maxPositions that server.ts:100
\* reads (part_002:95); the intervals are in seconds
Strategy(empty, holding, maxPos) ==
    [id |-> "default-rolling", leverage |-> 20, initialRisk |-> 15,
     beTriggerRoi |-> BE_TRIGGER_ROI, emptyInterval |-> empty,
     holdingInterval |-> holding, maxPositions |-> maxPos]

\* constants.ts:17-27: DEFAULT_STRATEGY sets no maxPositions
DEFAULT_STRATEGY == Strategy(15, 10, Null)

\* the strategy an operator posts: a pass every tick while holding, every
\* second tick while flat, at most two positions
LiveStrategy == Strategy(4, 2, Some(2))

\* constants.ts:29-37 DEFAULT_CONFIG: the strings are kept as "is it set"
Config(sim, key, secret, pass, ds, strat) ==
    [isSimulation |-> sim, okxApiKey |-> key, okxSecretKey |-> secret,
     okxPassphrase |-> pass, deepseekApiKey |-> ds, strategy |-> strat]

DEFAULT_CONFIG == Config(TRUE, FALSE, FALSE, FALSE, FALSE, DEFAULT_STRATEGY)

\* the request bodies of POST /api/config
Configs ==
    {DEFAULT_CONFIG,
     Config(FALSE, TRUE, TRUE, TRUE, TRUE, LiveStrategy),
     Config(FALSE, FALSE, TRUE, TRUE, FALSE, LiveStrategy),
     Config(FALSE, TRUE, TRUE, FALSE, FALSE, LiveStrategy)}

\* server.ts:45
ActiveStrategy(cfg) == cfg.strategy

-----------------------------------------------------------------------------
(* Market snapshots and the rule engine (services/aiService.ts:64-167) *)

\* what analyzeCoin reads of a SingleMarketData: the ticker, the number of
\* 1H bars, the latest 1H bar and the latest 3m bar (EMA 0: not computed)
Market(last, n, c, h15, h60, m15, m60) ==
    [last |-> last, n1H |-> n, c |-> c, h15 |-> h15, h60 |-> h60,
     m15 |-> m15, m60 |-> m60]

\* okxService.ts:208-235 generateMockMarketData: no candles
MockMarket(coin) == Market(LastPx(coin), 0, 0, 0, 0, 0, 0)

\* live snapshots: up trend with golden cross, down trend with dead cross,
\* too few bars
UpMarket(coin) == Market(LastPx(coin), 100, 110, 105, 100, 105, 100)
DownMarket(coin) == Market(LastPx(coin), 100, 90, 95, 100, 95, 100)
ShortMarket(coin) == Market(LastPx(coin), 99, 110, 105, 100, 105, 100)

\* aiService.ts:64-72
analyze1HTrend(m) ==
    IF m.n1H < 100 THEN "NEUTRAL"
    ELSE IF m.h15 = 0 \/ m.h60 = 0 THEN "NEUTRAL"
    ELSE IF m.c > m.h60 /\ m.h15 > m.h60 THEN "UP"
    ELSE IF m.c < m.h60 /\ m.h15 < m.h60 THEN "DOWN"
    ELSE "NEUTRAL"

analyze3mEntryAnyTrend(m, trend) ==
    IF m.m15 = 0 THEN "HOLD"
    ELSE IF m.m15 > m.m60 THEN "BUY"
    ELSE IF trend = "DOWN" THEN "SELL"
    ELSE "HOLD"

\* aiService.ts:74-88 (the action; signal is action # "HOLD")
analyze3mEntry(m, trend) ==
    IF m.m15 = 0 THEN "HOLD"
    ELSE IF trend = "UP" /\ m.m15 > m.m60 THEN "BUY"
    ELSE IF trend = "DOWN" /\ ~(m.m15 > m.m60) THEN "SELL"
    ELSE "HOLD"

\* positions.find(p => p.instId === instId): index of the first match, or 0
RECURSIVE FindPos(_, _, _)
FindPos(positions, instId, i) ==
    IF i > Len(positions) THEN 0
    ELSE IF positions[i].instId = instId THEN i
    ELSE FindPos(positions, instId, i + 1)

\* aiService.ts:90-157
analyzeCoin(coin, m, account, strategy) ==
    LET trend == analyze1HTrend(m)
        entry == analyze3mEntry(m, trend)
        instId == InstIdOf(coin)
        pi == FindPos(account.positions, instId, 1)
        hasPosition == pi # 0 /\ account.positions[pi].pos > 0
        pos == account.positions[pi]
        netRoi == pos.uplRatio - TAKER_FEE_RATE * 2
        afterBe == IF netRoi >= strategy.beTriggerRoi THEN "UPDATE_TPSL" ELSE "HOLD"
        finalAction ==
            IF hasPosition
            THEN IF (pos.posSide = "long" /\ trend = "DOWN")
                    \/ (pos.posSide = "short" /\ trend = "UP")
                 THEN "CLOSE" ELSE afterBe
            ELSE entry
    IN  [coin |-> coin, instId |-> instId, action |-> finalAction, size |-> 1]

\* aiService.ts:159-167: one decision per key of marketData, in key order
RECURSIVE DecisionsFrom(_, _, _, _)
DecisionsFrom(market, account, strategy, i) ==
    IF i > Len(CoinOrder) THEN <<>>
    ELSE LET coin == CoinOrder[i]
             rest == DecisionsFrom(market, account, strategy, i + 1)
         IN  IF coin \in DOMAIN market
             THEN <<analyzeCoin(coin, market[coin], account, strategy)>> \o rest
             ELSE rest

getTradingDecision(market, account, strategy) ==
    DecisionsFrom(market, account, strategy, 1)

-----------------------------------------------------------------------------
(* The exchange *)

\* total equity the balance endpoint may report (okxService.ts:167:
\* balanceData?.eq || "0"; the mock account holds 1000, okxService.ts:238)
Eqs == {1000}

Position(k, upl) ==
    [instId |-> InstIdOf(k.coin), posSide |-> k.posSide, pos |-> 3,
     avgPx |-> LastPx(k.coin), uplRatio |-> upl]

\* okxService.ts:157-165: the open positions, in the exchange's order
RECURSIVE PositionsFrom(_, _)
PositionsFrom(ex, i) ==
    IF i > Len(KeyOrder) THEN <<>>
    ELSE LET k == KeyOrder[i]
         IN  IF ex[KeyOf(k)].open
             THEN <<Position(k, ex[KeyOf(k)].upl)>> \o PositionsFrom(ex, i + 1)
             ELSE PositionsFrom(ex, i + 1)

\* okxService.ts:166-169
AccountOf(ex, eq) == [totalEq |-> eq, positions |-> PositionsFrom(ex, 1)]

\* okxService.ts:237-238 generateMockAccountData
MockAccount == [totalEq |-> 1000, positions |-> <<>>]

\* okxService.ts:208-235
MockMarketData == [c \in Coins |-> MockMarket(c)]

\* okxService.ts:115-139: the coins whose fetch succeeded, each with a snapshot
LiveMarketData ==
    {[c \in Coins |-> IF c = "BTC" THEN DownMarket(c) ELSE UpMarket(c)],
     [c \in {"BTC"} |-> ShortMarket(c)]}

-----------------------------------------------------------------------------
(* The steps of runTradingLoop (server.ts:41-166) *)

NoCall == [op |-> "none", arg |-> "", px |-> 0, size |-> 0]
Call(op, arg, px, size) == [op |-> op, arg |-> arg, px |-> px, size |-> size]

\* the locals of one invocation; pc names the await it is suspended at;
\* opened counts the entry orders the invocation has sent for instruments
\* without a position in the snapshot (the code keeps no such count)
IdleScan == [pc |-> "idle", strat |-> DEFAULT_CONFIG.strategy, mData |-> <<>>,
             i |-> 0, decisions |-> <<>>, insts |-> {}, d |-> 0, opened |-> 0]

\* the program state one step of a scan works on
Ctx(s) ==
    [loc |-> scan[s], market |-> marketData, account |-> accountData,
     prot |-> protectedPositions, last |-> lastAnalysisTime,
     latest |-> latestDecisions, running |-> isRunning, busy |-> isProcessing,
     call |-> NoCall, logs |-> <<>>, step |-> "none"]

\* server.ts:34-39 (the type of the entry; the buffer itself is not kept here)
addLog(c, type) == [c EXCEPT !.logs = Append(@, type)]

Mark(c, step) == [c EXCEPT !.step = step]

\* server.ts:163-165
Finally(c) == [c EXCEPT !.loc = IdleScan, !.busy = FALSE]

CatchKeepsBusy(c) ==
    [Mark(IF c.running THEN addLog(c, "ERROR") ELSE c, "caught") EXCEPT !.loc = IdleScan]

CatchResets(c) ==
    [Mark(IF c.running THEN addLog(c, "ERROR") ELSE c, "caught") EXCEPT
        !.loc = IdleScan, !.busy = FALSE, !.prot = {}]

\* server.ts:161-162
Catch(c) == Finally(Mark(IF c.running THEN addLog(c, "ERROR") ELSE c, "caught"))

\* server.ts:111-116
Contracts(eq, strategy, coin, price) ==
    (eq * strategy.initialRisk * strategy.leverage) \div (CtValOf(coin) * price)

\* server.ts:132,147 with okxService.ts:175-176: the order is sent; in
\* simulation it is answered at once with code "0"
OrderCall(dec) == Call("executeOrder", dec.instId, 0, dec.size)

\* server.ts:100: a comparison with an undefined maxPositions is false
SlotsFull(positions, strategy) ==
    /\ ~strategy.maxPositions.null
    /\ Len(positions) >= strategy.maxPositions.v

\* server.ts:92-158, from decision d to the next await or the end of the loop
RECURSIVE DecideFrom(_, _)
DecideFrom(c, d) ==
    IF d > Len(c.loc.decisions) THEN Finally(Mark(c, "passEnd"))
    ELSE
    LET dec0 == c.loc.decisions[d]
        strategy == c.loc.strat
        c1 == [c EXCEPT !.latest = [@ EXCEPT ![dec0.coin] = dec0.action], !.loc.d = d]
        entry == dec0.action \in {"BUY", "SELL"}
        isExisting == \E j \in 1..Len(c.account.v.positions) :
                          c.account.v.positions[j].instId = dec0.instId
        contracts == Contracts(c.account.v.totalEq, strategy, dec0.coin,
                               c.market.v[dec0.coin].last)
        dec == [dec0 EXCEPT !.size = contracts]
        c2 == [c1 EXCEPT !.loc.decisions = [@ EXCEPT ![d] = dec]]
    IN  IF dec0.action = "HOLD" THEN DecideFrom(c1, d + 1)
        ELSE IF entry /\ SlotsFull(c.account.v.positions, strategy) /\ ~isExisting
        THEN DecideFrom(addLog(c1, "WARNING"), d + 1)
        ELSE IF dec0.coin \notin c.loc.insts THEN DecideFrom(c1, d + 1)
        ELSE IF entry /\ contracts <= 0
        THEN DecideFrom(addLog(c2, "WARNING"), d + 1)
        ELSE IF entry
        THEN [c2 EXCEPT !.loc.pc = "lev", !.step = "setLeverage",
                        !.call = Call("setLeverage", dec.instId, 0, 0)]
        ELSE IF dec0.action = "CLOSE"
        THEN IF config.isSimulation
             THEN [addLog(c2, "TRADE") EXCEPT !.loc.pc = "execSleep",
                        !.step = "closeOrder", !.call = OrderCall(dec)]
             ELSE [c2 EXCEPT !.loc.pc = "closeOrder", !.step = "closeOrder",
                        !.call = OrderCall(dec)]
        ELSE [c2 EXCEPT !.loc.pc = "execSleep", !.step = "noop"]

ExecCatchAborts(c) == Finally(Mark(addLog(c, "ERROR"), "passEnd"))

\* server.ts:155-157, then the next decision
ExecCatch(c) == DecideFrom(addLog(c, "ERROR"), c.loc.d + 1)

DynamicIntervalSwapped(account, strategy) ==
    (IF Len(account.positions) > 0 THEN strategy.emptyInterval
                                   ELSE strategy.holdingInterval) * 1000

\* server.ts:77-90
DynamicInterval(account, strategy) ==
    (IF Len(account.positions) > 0 THEN strategy.holdingInterval
                                   ELSE strategy.emptyInterval) * 1000

PassDue(c) == now - c.last >= DynamicInterval(c.account.v, c.loc.strat)

IntervalCheck(c) ==
    IF PassDue(c)
    THEN LET c1 == [c EXCEPT !.last = now]
             c2 == IF ~config.deepseekApiKey /\ ~config.isSimulation
                   THEN addLog(c1, "WARNING") ELSE c1
             c3 == addLog(c2, "INFO")
         IN  [c3 EXCEPT !.loc.pc = "fetchInstruments",
                        !.loc.decisions =
                            getTradingDecision(c.market.v, c.account.v, c.loc.strat),
                        !.step = "passStart"]
    ELSE Finally(Mark(c, "passSkip"))

NeedsProtectionAgain(pos, strategy, prot) ==
    pos.uplRatio - TAKER_FEE_RATE * 2 >= strategy.beTriggerRoi

\* server.ts:62
NeedsProtection(pos, strategy, prot) ==
    pos.uplRatio - TAKER_FEE_RATE * 2 >= strategy.beTriggerRoi
        /\ PosId(pos) \notin prot

ProtectPriceSwapped(pos) ==
    IF pos.posSide = "long" THEN pos.avgPx * SHORT_PROTECT
                            ELSE pos.avgPx * LONG_PROTECT

\* server.ts:63-65
ProtectPrice(pos) ==
    IF pos.posSide = "long" THEN pos.avgPx * LONG_PROTECT
                            ELSE pos.avgPx * SHORT_PROTECT

\* server.ts:68-70
Protected(c, i) ==
    [addLog(c, "SUCCESS") EXCEPT
        !.prot = @ \cup {PosId(c.account.v.positions[i])},
        !.loc.pc = "sweepSleep", !.loc.i = i]

\* server.ts:59-75, from position i to the next await or the end of the sweep
RECURSIVE SweepFrom(_, _)
SweepFrom(c, i) ==
    IF i > Len(c.account.v.positions) THEN IntervalCheck(c)
    ELSE LET pos == c.account.v.positions[i]
             call == Call("updatePositionTPSL", PosId(pos), ProtectPrice(pos), pos.pos)
         IN  IF NeedsProtection(pos, c.loc.strat, c.prot)
             THEN IF config.isSimulation
                  THEN [Protected(c, i) EXCEPT !.call = call, !.step = "protect"]
                  ELSE [c EXCEPT !.loc.pc = "tpsl", !.loc.i = i,
                                 !.call = call, !.step = "protect"]
             ELSE SweepFrom(c, i + 1)

\* server.ts:53
CredentialsMissing(cfg) ==
    ~cfg.isSimulation /\ (~cfg.okxApiKey \/ ~cfg.okxSecretKey \/ ~cfg.okxPassphrase)

MayTradeWhenStopped(c) == ~c.market.null /\ ~c.account.null

\* server.ts:52
MayTrade(c) == c.running /\ ~c.market.null /\ ~c.account.null

AfterFetchGated(c, aData) ==
    LET c1 == [c EXCEPT !.market = Some(c.loc.mData), !.account = Some(aData)]
    IN  IF MayTrade(c1)
        THEN IF CredentialsMissing(config)
             THEN Finally(Mark([addLog(c1, "ERROR") EXCEPT !.running = FALSE],
                               "credHalt"))
             ELSE IF PassDue(c1) THEN SweepFrom(c1, 1)
                                 ELSE Finally(Mark(c1, "passSkip"))
        ELSE Finally(Mark(c1, "refreshOnly"))

\* server.ts:49-57, then the sweep
AfterFetch(c, aData) ==
    LET c1 == [c EXCEPT !.market = Some(c.loc.mData), !.account = Some(aData)]
    IN  IF MayTrade(c1)
        THEN IF CredentialsMissing(config)
             THEN Finally(Mark([addLog(c1, "ERROR") EXCEPT !.running = FALSE],
                               "credHalt"))
             ELSE SweepFrom(c1, 1)
        ELSE Finally(Mark(c1, "refreshOnly"))

\* server.ts:47 with okxService.ts:141-143: the call reads the configuration
\* at once: the mock, a throw, or a request to the exchange
CallFetchAccount(c) ==
    IF config.isSimulation THEN AfterFetch(c, MockAccount)
    ELSE IF ~config.okxApiKey \/ ~config.okxSecretKey THEN Catch(c)
    ELSE [c EXCEPT !.loc.pc = "fetchAccount", !.step = "fetchAccount"]

-----------------------------------------------------------------------------
(* State changes *)

\* the latest step: its outcome, the scan that took it (0: none) and the await
\* it resumed from, the trading call it sent, the log entries it added
Out(step, slot, from, call, logs) ==
    [step |-> step, slot |-> slot, from |-> from, call |-> call, logs |-> logs]

\* a step of scan s that leaves the program in c
Apply(s, c) ==
    /\ scan' = [scan EXCEPT ![s] = c.loc]
    /\ marketData' = c.market
    /\ accountData' = c.account
    /\ protectedPositions' = c.prot
    /\ lastAnalysisTime' = c.last
    /\ latestDecisions' = c.latest
    /\ isRunning' = c.running
    /\ isProcessing' = c.busy
    /\ out' = Out(c.step, s, scan[s].pc, c.call, c.logs)
    /\ UNCHANGED <<sideVars, config, now, exchange>>

At(s, pc) == scan[s].pc = pc

Active == {s \in Slots : scan[s].pc # "idle"}

BusyNever == FALSE

\* server.ts:42
Busy == isProcessing

\* the invocation a timer firing creates
FreeSlot(s) == scan[s].pc = "idle" /\ \A t \in Slots : scan[t].pc = "idle" => s <= t

\* server.ts:42: the timer fires during a scan
TickDrop ==
    /\ Busy
    /\ out' = Out("tickDrop", 0, "", NoCall, <<>>)
    /\ UNCHANGED <<sideVars, progVars, now, exchange>>

\* server.ts:43-47 with okxService.ts:115-121: in simulation both fetches
\* are answered at once; live, fetchMarketData awaits the exchange
TickStart(s) ==
    /\ ~Busy
    /\ FreeSlot(s)
    /\ LET c0 == [Ctx(s) EXCEPT !.busy = TRUE, !.loc.strat = ActiveStrategy(config),
                                !.step = "tickStart"]
       IN  IF config.isSimulation
           THEN Apply(s, CallFetchAccount([c0 EXCEPT !.loc.mData = MockMarketData]))
           ELSE Apply(s, [c0 EXCEPT !.loc.pc = "fetchMarket"])

\* server.ts:46-47
MarketReturn(s, md) ==
    /\ At(s, "fetchMarket")
    /\ Apply(s, CallFetchAccount([Ctx(s) EXCEPT !.loc.mData = md]))

\* server.ts:47-52
AccountReturn(s, eq) ==
    /\ At(s, "fetchAccount")
    /\ Apply(s, AfterFetch(Ctx(s), AccountOf(exchange, eq)))

\* okxService.ts:154,170-172
AccountThrow(s) ==
    /\ At(s, "fetchAccount")
    /\ Apply(s, Catch(Ctx(s)))

\* server.ts:67-70 with okxService.ts:192-201: updatePositionTPSL resolves
\* with the exchange's answer, code '0' (ok) or another code, and the caller
\* does not read it
TpslReturn(s, ok) ==
    /\ At(s, "tpsl")
    /\ Apply(s, Mark(Protected(Ctx(s), scan[s].i),
                     IF ok THEN "protected" ELSE "protectedUnread"))

\* server.ts:71-73, then the next position
TpslThrow(s) ==
    /\ At(s, "tpsl")
    /\ Apply(s, SweepFrom(addLog(Ctx(s), "ERROR"), scan[s].i + 1))

\* server.ts:70
SweepSleepDone(s) ==
    /\ At(s, "sweepSleep")
    /\ Apply(s, SweepFrom(Ctx(s), scan[s].i + 1))

\* server.ts:90-92 with okxService.ts:29-56
InstrumentsReturn(s, insts) ==
    /\ At(s, "fetchInstruments")
    /\ Apply(s, DecideFrom([Ctx(s) EXCEPT !.loc.insts = insts], 1))

\* server.ts:102: the snapshot lists a position of the instrument
Holds(account, instId) ==
    \E j \in 1..Len(account.positions) : account.positions[j].instId = instId

\* server.ts:126-130
LevReturn(s, ok) ==
    /\ At(s, "lev")
    /\ LET c == IF ok THEN Ctx(s) ELSE addLog(Ctx(s), "WARNING")
       IN  Apply(s, [c EXCEPT !.loc.pc = "levSleep", !.step = "levDone"])

LevThrow(s) ==
    /\ At(s, "lev")
    /\ Apply(s, ExecCatch(Ctx(s)))

\* server.ts:130-133
LevSleepDone(s) ==
    /\ At(s, "levSleep")
    /\ LET dec == scan[s].decisions[scan[s].d]
           c == [Ctx(s) EXCEPT !.call = OrderCall(dec), !.step = "entryOrder",
                               !.loc.opened = IF Holds(accountData.v, dec.instId)
                                              THEN @ ELSE @ + 1]
       IN  IF config.isSimulation
           THEN Apply(s, [c EXCEPT !.loc.pc = "orderSleep"])
           ELSE Apply(s, [c EXCEPT !.loc.pc = "order"])

\* the answer of the exchange is not read
OrderReturnUnread(s, ok) ==
    /\ At(s, "order")
    /\ Apply(s, [Ctx(s) EXCEPT !.loc.pc = "orderSleep",
                               !.step = IF ok THEN "orderDone" ELSE "orderUnread"])

\* server.ts:133-134,143-145
OrderReturn(s, ok) ==
    /\ At(s, "order")
    /\ IF ok THEN Apply(s, [Ctx(s) EXCEPT !.loc.pc = "orderSleep", !.step = "orderDone"])
             ELSE Apply(s, ExecCatch(Ctx(s)))

OrderThrow(s) ==
    /\ At(s, "order")
    /\ Apply(s, ExecCatch(Ctx(s)))

\* server.ts:134-141
OrderSleepDone(s) ==
    /\ At(s, "orderSleep")
    /\ LET dec == scan[s].decisions[scan[s].d]
       IN  Apply(s, [Ctx(s) EXCEPT !.loc.pc = "trail", !.step = "trailingStop",
                         !.call = Call("placeTrailingStop", dec.instId, 0, dec.size)])

\* server.ts:142,154
TrailReturn(s) ==
    /\ At(s, "trail")
    /\ Apply(s, [addLog(Ctx(s), "TRADE") EXCEPT !.loc.pc = "execSleep",
                                                !.step = "entered"])

TrailThrow(s) ==
    /\ At(s, "trail")
    /\ Apply(s, ExecCatch(Ctx(s)))

\* server.ts:147-154
CloseReturn(s, ok) ==
    /\ At(s, "closeOrder")
    /\ IF ok THEN Apply(s, [addLog(Ctx(s), "TRADE") EXCEPT !.loc.pc = "execSleep",
                                                           !.step = "closed"])
             ELSE Apply(s, ExecCatch(Ctx(s)))

CloseThrow(s) ==
    /\ At(s, "closeOrder")
    /\ Apply(s, ExecCatch(Ctx(s)))

\* server.ts:154, then the next decision
ExecSleepDone(s) ==
    /\ At(s, "execSleep")
    /\ Apply(s, DecideFrom(Ctx(s), scan[s].d + 1))

\* server.ts:192-201
PostConfig(cfg) ==
    /\ config' = cfg
    /\ protectedPositions' = {}
    /\ out' = Out("config", 0, "", NoCall, <<"INFO">>)
    /\ UNCHANGED <<sideVars, isRunning, marketData, accountData, latestDecisions,
                   lastAnalysisTime, isProcessing, scan, now, exchange>>

\* server.ts:216-221
Toggle(running) ==
    /\ isRunning' = running
    /\ protectedPositions' = IF ~running THEN {} ELSE protectedPositions
    /\ out' = Out("toggle", 0, "", NoCall, <<"INFO">>)
    /\ UNCHANGED <<sideVars, config, marketData, accountData, latestDecisions,
                   lastAnalysisTime, isProcessing, scan, now, exchange>>

\* Date.now() when the model starts: the server has been up for seven ticks,
\* so that, lastAnalysisTime being 0, the default holding interval (10 s) has
\* elapsed and the default flat interval (15 s) elapses one tick later
StartTime == 7 * TICK_MS

\* time passes
Advance ==
    /\ now < StartTime + MaxClock * TICK_MS
    /\ now' = now + TICK_MS
    /\ out' = Out("env", 0, "", NoCall, <<>>)
    /\ UNCHANGED <<sideVars, progVars, exchange>>

OpenCount == Cardinality({k \in Keys : exchange[k].open})

\* a position is opened at the exchange
ExOpen(k, u) ==
    /\ ~exchange[k].open
    /\ OpenCount < MaxOpen
    /\ exchange' = [exchange EXCEPT ![k] = OpenAt(u)]
    /\ out' = Out("env", 0, "", NoCall, <<>>)
    /\ UNCHANGED <<sideVars, progVars, now>>

\* a position is closed at the exchange (stop hit, reduce-only fill, manual)
ExClose(k) ==
    /\ exchange[k].open
    /\ exchange' = [exchange EXCEPT ![k] = Closed]
    /\ out' = Out("env", 0, "", NoCall, <<>>)
    /\ UNCHANGED <<sideVars, progVars, now>>

\* the market moves the unrealized ROI of an open position
ExMove(k, u) ==
    /\ exchange[k].open
    /\ exchange[k].upl # u
    /\ exchange' = [exchange EXCEPT ![k] = OpenAt(u)]
    /\ out' = Out("env", 0, "", NoCall, <<>>)
    /\ UNCHANGED <<sideVars, progVars, now>>

Init ==
    /\ config = DEFAULT_CONFIG
    /\ isRunning = FALSE
    /\ marketData = Null
    /\ accountData = Null
    /\ latestDecisions = [c \in Coins |-> ""]
    /\ lastAnalysisTime = 0
    /\ isProcessing = FALSE
    /\ protectedPositions = {}
    /\ scan = [s \in Slots |-> IdleScan]
    /\ now = StartTime
    /\ exchange = [k \in Keys |-> Closed]
    /\ out = Out("init", 0, "", NoCall, <<>>)
    /\ analysis = Idle
    /\ algo = Idle
    /\ backtest = Idle
    /\ sizer = Idle
    /\ feed = Idle

ScanStep(s) ==
    \/ TickStart(s)
    \/ \E md \in LiveMarketData : MarketReturn(s, md)
    \/ \E eq \in Eqs : AccountReturn(s, eq)
    \/ AccountThrow(s)
    \/ \E ok \in BOOLEAN : TpslReturn(s, ok)
    \/ TpslThrow(s)
    \/ SweepSleepDone(s)
    \/ \E insts \in SUBSET Coins : InstrumentsReturn(s, insts)
    \/ \E ok \in BOOLEAN : LevReturn(s, ok)
    \/ LevThrow(s)
    \/ LevSleepDone(s)
    \/ \E ok \in BOOLEAN : OrderReturn(s, ok)
    \/ OrderThrow(s)
    \/ OrderSleepDone(s)
    \/ TrailReturn(s)
    \/ TrailThrow(s)
    \/ \E ok \in BOOLEAN : CloseReturn(s, ok)
    \/ CloseThrow(s)
    \/ ExecSleepDone(s)

Next ==
    \/ TickDrop
    \/ \E s \in Slots : ScanStep(s)
    \/ \E cfg \in Configs : PostConfig(cfg)
    \/ \E r \in BOOLEAN : Toggle(r)
    \/ Advance
    \/ \E k \in Keys, u \in UplLevels : ExOpen(k, u)
    \/ \E k \in Keys : ExClose(k)
    \/ \E k \in Keys, u \in UplLevels : ExMove(k, u)

Spec == Init /\ [][Next]_vars

-----------------------------------------------------------------------------
(* Properties *)

UpdateTpsl == "updatePositionTPSL"
OrderOps == {"setLeverage", "executeOrder", "placeTrailingStop"}
ExecAwaits == {"lev", "levSleep", "order", "orderSleep", "trail", "closeOrder", "execSleep"}

\* the scan that took the latest step starts from the timer
TickBegins(o) == o.slot # 0 /\ o.from = "idle"

NetRoi(pos) == pos.uplRatio - 2 * TAKER_FEE_RATE

\* C1: at most one scan of runTradingLoop is in progress at any time; a timer
\* tick that fires while a scan is in flight starts nothing and changes
\* nothing of the program's state (it is dropped, not queued).
SingleFlight ==
    [][ /\ Cardinality({s \in Slots : scan'[s].pc # "idle"}) <= 1
        /\ TickBegins(out') => ~isProcessing /\ Active = {}
        /\ (isProcessing /\ out'.step = "tickDrop") => UNCHANGED progVars
      ]_vars

\* a tick was dropped while a scan was waiting for the exchange
SingleFlightWitness ==
    /\ out.step = "tickDrop"
    /\ \E s \in Slots : scan[s].pc = "fetchAccount"

\* C2: for a fixed position key the sweep sends updatePositionTPSL at most
\* once for as long as the key stays in the registry: no update is sent for a
\* key the registry holds, however many ticks see its net ROI at or above
\* beTriggerRoi.
UpdateOncePerEntry ==
    [][ out'.call.op = UpdateTpsl => out'.call.arg \notin protectedPositions ]_vars

\* a later tick swept a protected position whose net ROI is at or above the
\* trigger, and sent nothing
UpdateOncePerEntryWitness ==
    /\ out.slot # 0
    /\ out.from = "fetchAccount"
    /\ out.step \in {"passStart", "passSkip"}
    /\ out.call = NoCall
    /\ \E j \in 1..Len(accountData.v.positions) :
          /\ NetRoi(accountData.v.positions[j]) >= BE_TRIGGER_ROI
          /\ PosId(accountData.v.positions[j]) \in protectedPositions

Eligible(positions, a, strategy, registry) ==
    {j \in a..Len(positions) :
        /\ NetRoi(positions[j]) >= strategy.beTriggerRoi
        /\ PosId(positions[j]) \notin registry}

Least(S) == CHOOSE j \in S : \A i \in S : j <= i

\* the stop the sweep has to send for a position
StopFor(pos) ==
    Call(UpdateTpsl, PosId(pos),
         IF pos.posSide = "long" THEN pos.avgPx * 10005 ELSE pos.avgPx * 9995,
         pos.pos)

\* the strategy of the scan that takes the step
StrategyOf(s) == IF scan[s].pc = "idle" THEN ActiveStrategy(config) ELSE scan[s].strat

\* C4: in a running scan the sweep sends a protective stop for a position of
\* the account snapshot if and only if its net ROI (unrealized ROI minus
\* 2 x TAKER_FEE_RATE) is at least beTriggerRoi and its key is not in the
\* registry; the stop is avgPx x 1.0005 (long) or avgPx x 0.9995 (short); the
\* key enters the registry after the update, and in no other way.
SweepProtects ==
    [][ LET s == out'.slot
            positions == accountData'.v.positions
            a == IF out'.from \in {"tpsl", "sweepSleep"} THEN scan[s].i + 1 ELSE 1
            E == Eligible(positions, a, StrategyOf(s), protectedPositions)
        IN  /\ out'.call.op = UpdateTpsl => s # 0 /\ out'.step = "protect"
            /\ (s # 0 /\ out'.step \in {"protect", "passStart", "passSkip"})
                => IF E = {} THEN out'.call.op # UpdateTpsl
                   ELSE out'.call = StopFor(positions[Least(E)])
            /\ \A k \in protectedPositions' \ protectedPositions :
                  /\ s # 0
                  /\ \/ out'.step \in {"protected", "protectedUnread"}
                           /\ scan[s].pc = "tpsl"
                           /\ k = PosId(positions[scan[s].i])
                     \/ out'.step = "protect" /\ config.isSimulation
                           /\ k = out'.call.arg
      ]_vars

\* the exchange answered the stop of a short position and its key was added
SweepProtectsWitness ==
    /\ out.step = "protected"
    /\ \E s \in Slots :
          /\ scan[s].pc = "sweepSleep"
          /\ accountData.v.positions[scan[s].i].posSide = "short"
          /\ PosId(accountData.v.positions[scan[s].i]) \in protectedPositions

FetchAwaits == {"idle", "fetchMarket", "fetchAccount"}

\* the latest step took a scan through the end of its two fetches
FetchesDone(o) ==
    /\ o.slot # 0
    /\ o.from \in FetchAwaits
    /\ o.step \notin {"tickStart", "fetchAccount", "caught"}

\* elapsed time since the last pass is below the interval of the snapshot
PassNotDue(strategy) ==
    now - lastAnalysisTime <
        (IF Len(accountData.v.positions) > 0 THEN strategy.holdingInterval
                                             ELSE strategy.emptyInterval) * 1000

PassWhenDue ==
    [][ LET s == out'.slot
            strategy == StrategyOf(s)
            interval == (IF Len(accountData'.v.positions) >= 1
                         THEN strategy.holdingInterval
                         ELSE strategy.emptyInterval) * 1000
        IN  /\ (s # 0 /\ out'.step = "passStart")
                => /\ now - lastAnalysisTime >= interval
                   /\ lastAnalysisTime' = now
                   /\ latestDecisions' = latestDecisions
                   /\ scan'[s].pc = "fetchInstruments"
            /\ (s # 0 /\ out'.step = "passSkip")
                => /\ now - lastAnalysisTime < interval
                   /\ lastAnalysisTime' = lastAnalysisTime
                   /\ scan'[s].pc = "idle"
            /\ lastAnalysisTime' # lastAnalysisTime => out'.step = "passStart"
            /\ (s # 0 /\ scan[s].pc \notin {"fetchInstruments"} \cup ExecAwaits)
                => (latestDecisions' = latestDecisions /\ out'.call.op \notin OrderOps)
      ]_vars

\* a pass started one holding interval after the previous one, with a
\* position in the snapshot and before the flat interval had elapsed
PassWhenDueWitness ==
    /\ out.step = "passStart"
    /\ Len(accountData.v.positions) > 0
    /\ lastAnalysisTime = now
    /\ now = StartTime + TICK_MS

\* C7: while the system is stopped a tick only refreshes the snapshots: a
\* scan that has not passed the running check sends no stop and no order,
\* records no decision and starts no pass; a toggle leaves a scan in flight
\* where it is.
StoppedTicksOnlyRefresh ==
    [][ /\ \A s \in Slots :
              (~isRunning /\ ~isRunning' /\ scan[s].pc \in FetchAwaits)
                  => /\ scan'[s].pc \in FetchAwaits
                     /\ out'.slot = s
                          => /\ out'.call = NoCall
                             /\ out'.step \in {"tickStart", "fetchAccount",
                                               "refreshOnly", "caught"}
                             /\ latestDecisions' = latestDecisions
                             /\ protectedPositions' = protectedPositions
                             /\ lastAnalysisTime' = lastAnalysisTime
        /\ out'.step = "toggle"
              => (scan' = scan /\ isProcessing' = isProcessing)
      ]_vars

\* a tick of the stopped system refreshed a snapshot with a position that
\* needs protection and left it alone
StoppedTicksOnlyRefreshWitness ==
    /\ ~isRunning
    /\ out.step = "refreshOnly"
    /\ Eligible(accountData.v.positions, 1, config.strategy, protectedPositions) # {}

\* C8: isProcessing is set when a scan starts and released on every exit
\* path (normal end, credential return, exception): it is true exactly while
\* a scan is in flight, and when none is a tick can start one.
BusyFlagReleased ==
    /\ isProcessing <=> Active # {}
    /\ Active = {} => ENABLED (\E s \in Slots : TickStart(s))

\* a scan ended in the catch block and the flag is released
BusyFlagReleasedWitness ==
    /\ out.step = "caught"
    /\ out.logs = <<"ERROR">>
    /\ ~isProcessing
    /\ Active = {}

\* C9: when the system runs live and a credential (API key, secret or
\* passphrase) is missing, the tick halts the system: once its fetches are
\* over (and the exchange did not fail them) isRunning is false.
CredentialHalt ==
    (/\ out.slot # 0
     /\ out.from \in FetchAwaits
     /\ scan[out.slot].pc = "idle"
     /\ ~(out.from = "fetchAccount" /\ out.step = "caught")
     /\ CredentialsMissing(config))
        => ~isRunning

\* C10: a failure while executing one decision (a throw of the leverage,
\* order or trailing-stop call, a rejected order) is logged as an error, the
\* decision is not tried again, and the pass goes on with the decisions that
\* remain: each is recorded, and the next one to execute is started.
ExecFailureIsolated ==
    [][ \A s \in Slots :
          (/\ out'.slot = s
           /\ scan[s].pc \in {"lev", "order", "trail", "closeOrder"}
           /\ Len(out'.logs) > 0 /\ out'.logs[1] = "ERROR")
              => LET ds == scan[s].decisions
                     d == scan[s].d
                     d2 == IF scan'[s].pc = "idle" THEN Len(ds) + 1 ELSE scan'[s].d
                 IN  /\ d2 > d
                     /\ \A j \in (d + 1)..Len(ds) :
                           j <= d2 /\ j <= Len(ds)
                              => latestDecisions'[ds[j].coin] = ds[j].action
                     /\ scan'[s].pc \in {"idle", "lev", "closeOrder", "execSleep"}
                     /\ out'.call.op # "none" => out'.call.arg # ds[d].instId
      ]_vars

\* the first entry of a pass failed and the pass went on to set the leverage
\* for the second
ExecFailureIsolatedWitness ==
    /\ out.step = "setLeverage"
    /\ out.from \in {"lev", "order", "trail"}
    /\ out.logs = <<"ERROR">>
    /\ \E s \in Slots : scan[s].pc = "lev" /\ scan[s].d = 2

\* C11: a failure of a single collaborator call is an error of that call
\* only and the rest of the scan is carried out; for the account fetch: a
\* running scan whose account fetch failed is not abandoned in the catch block.
CollaboratorFailureKeepsScan ==
    ~(/\ out.slot # 0
      /\ out.from = "fetchAccount"
      /\ out.step = "caught"
      /\ out.logs = <<"ERROR">>
      /\ isRunning
      /\ ~marketData.null
      /\ ~accountData.null)

\* okxService.ts:44: the minimum order size the exchange lists for the
\* instrument, in contracts
MinSzOf(coin) == IF coin = "BTC" THEN 1 ELSE 10

\* the decision a scan is executing
CurrentDecision(s) == scan[s].decisions[scan[s].d]

\* C12: for a BUY or SELL decision no leverage call and no order is sent when
\* the computed contract count is 0 or less or is below the minSz of the
\* instrument.
EntryRespectsMinSz ==
    (/\ out.slot # 0
     /\ out.step \in {"setLeverage", "entryOrder"}
     /\ out.call.op \in {"setLeverage", "executeOrder"})
        => LET dec == CurrentDecision(out.slot)
           IN  /\ dec.action \in {"BUY", "SELL"}
               /\ dec.size > 0
               /\ dec.size >= MinSzOf(dec.coin)

-----------------------------------------------------------------------------
(* analyzeCoin on its own: the rule engine of services/aiService.ts and the
   variant with an advisory model (unnamed/part_000:479-591) *)

\* the candles analyzeCoin reads: number of 1H bars with the close and the
\* EMAs of the latest one, number of 3m bars with the close and the EMAs of
\* the latest one; okxService.ts:72-81 gives every bar both EMAs, and the
\* EMAs of a single bar are its close (okxService.ts:62)
Snapshot(coin, h, m) ==
    [last |-> LastPx(coin), n1H |-> h[1], c |-> h[2], h15 |-> h[3], h60 |-> h[4],
     n3m |-> m[1], c3m |-> m[2], m15 |-> m[3], m60 |-> m[4]]

Bars1H ==
    {<<0, 0, 0, 0>>}
        \cup {<<n, c, e, 100>> : n \in {2, 100}, c \in {90, 110}, e \in {95, 100, 105}}

Bars3m ==
    {<<0, 0, 0, 0>>} \cup {<<1, c, c, c>> : c \in {90, 110}}
        \cup {<<60, c, e, 100>> : c \in {90, 110}, e \in {95, 100, 105}}

\* aiService.ts:76, 82, 85, 87: the reason of the entry signal
analyze3mEntryReason(m, trend) ==
    IF m.m15 = 0 THEN "indicator missing"
    ELSE IF trend = "UP" /\ m.m15 > m.m60 THEN "3m golden cross confirmed"
    ELSE IF trend = "DOWN" /\ ~(m.m15 > m.m60) THEN "3m dead cross confirmed"
    ELSE "waiting for a cross"

\* part_000:479-502 analyze1HTrend(candles1H, candles3m)
analyze1HTrendAdvised(m) ==
    IF m.n1H >= 2 /\ m.c > m.h60 /\ m.h15 * 1000 > m.h60 * 999 THEN "UP"
    ELSE IF m.n1H >= 2 /\ m.c < m.h60 /\ m.h15 * 1000 < m.h60 * 1001 THEN "DOWN"
    ELSE IF m.n3m >= 60 /\ m.c3m > m.m60 THEN "UP"
    ELSE IF m.n3m >= 60 /\ m.c3m < m.m60 THEN "DOWN"
    ELSE "NEUTRAL"

\* part_000:504-517 analyze3mEntry: the action
analyze3mEntryAdvised(m, trend) ==
    IF m.n3m < 2 THEN "HOLD"
    ELSE IF trend = "UP" /\ m.m15 > m.m60 THEN "BUY"
    ELSE IF trend = "DOWN" /\ ~(m.m15 > m.m60) THEN "SELL"
    ELSE "HOLD"

\* part_000:505-516: the reason
analyze3mEntryAdvisedReason(m, trend) ==
    IF m.n3m < 2 THEN "waiting for candles"
    ELSE IF trend = "UP" /\ m.m15 > m.m60 THEN "resonance long"
    ELSE IF trend = "DOWN" /\ ~(m.m15 > m.m60) THEN "resonance short"
    ELSE "waiting for 3m resonance"

\* a held position is kept whatever the trend is
analyzeCoinRuleKeeps(coin, m, account) ==
    LET trend == analyze1HTrendAdvised(m)
        pi == FindPos(account.positions, InstIdOf(coin), 1)
        hasPosition == pi # 0 /\ account.positions[pi].pos # 0
    IN  IF hasPosition
        THEN [action |-> "HOLD", reason |-> "position stable"]
        ELSE [action |-> analyze3mEntryAdvised(m, trend),
              reason |-> analyze3mEntryAdvisedReason(m, trend)]

\* part_000:527-549: the rule-based recommendation (finalAction, finalReason)
analyzeCoinRule(coin, m, account) ==
    LET trend == analyze1HTrendAdvised(m)
        pi == FindPos(account.positions, InstIdOf(coin), 1)
        hasPosition == pi # 0 /\ account.positions[pi].pos # 0
        pos == account.positions[pi]
        reversed == \/ (pos.posSide = "long" /\ trend = "DOWN")
                    \/ (pos.posSide = "short" /\ trend = "UP")
    IN  IF hasPosition
        THEN IF reversed THEN [action |-> "CLOSE", reason |-> "trend reversed"]
                         ELSE [action |-> "HOLD", reason |-> "position stable"]
        ELSE [action |-> analyze3mEntryAdvised(m, trend),
              reason |-> analyze3mEntryAdvisedReason(m, trend)]

\* what the advisory request of part_000:565-582 can come to: the fetch
\* rejects, the body or its content is not JSON, the body carries no
\* choices (an error body: the content defaults to "{}"), or the content is a
\* JSON object with some action
Replies ==
    {[kind |-> k, action |-> "undefined"] : k \in {"unreachable", "garbled", "empty"}}
        \cup {[kind |-> "decision", action |-> a] : a \in Actions}

FallbackTag == "AI offline, switching to technical analysis"

\* part_000:551-563: the decision returned without an advisory request
RuleDecision(coin, rule) ==
    [coin |-> coin, instId |-> InstIdOf(coin), action |-> rule.action, size |-> 1,
     reasoning |-> <<rule.reason>>]

\* part_000:581-590: the decision returned after the advisory request; the
\* catch block answers a rejected fetch and a JSON syntax error
AdvisedDecision(coin, rule, reply) ==
    IF reply.kind \in {"unreachable", "garbled"}
    THEN [RuleDecision(coin, rule) EXCEPT !.reasoning = <<FallbackTag, rule.reason>>]
    ELSE [coin |-> coin, instId |-> InstIdOf(coin), action |-> reply.action,
          size |-> 0,
          reasoning |-> IF reply.kind = "empty" THEN <<>> ELSE <<"advised">>]

\* the accounts analyzeCoin is called with
Holdings == [Keys -> {Closed} \cup {OpenAt(u) : u \in UplLevels}]

\* part_000:519-565: analyzeCoin is called; in a backtest and without an API
\* key it returns the rule-based decision, otherwise it awaits the advisory
analyzeCoinCalled(coin, h, m, ex, key, isBacktest) ==
    /\ analysis.phase = "none"
    /\ LET snap == Snapshot(coin, h, m)
           account == AccountOf(ex, 1000)
           rule == analyzeCoinRule(coin, snap, account)
           call == [coin |-> coin, m |-> snap, account |-> account, key |-> key,
                    isBacktest |-> isBacktest, rule |-> rule,
                    plain |-> analyzeCoin(coin, snap, account, LiveStrategy),
                    plainReason |-> analyze3mEntryReason(snap, analyze1HTrend(snap))]
       IN  analysis' =
               IF isBacktest \/ ~key
               THEN [phase |-> "returned", call |-> call,
                     reply |-> [kind |-> "none", action |-> "undefined"],
                     decision |-> RuleDecision(coin, rule)]
               ELSE [phase |-> "advisory", call |-> call]
    /\ UNCHANGED <<config, isRunning, marketData, accountData, latestDecisions,
                   lastAnalysisTime, isProcessing, protectedPositions, scan,
                   now, exchange, out, algo, backtest, sizer, feed>>

\* part_000:565-590: the advisory request settles
AdvisoryReturn(reply) ==
    /\ analysis.phase = "advisory"
    /\ analysis' = [phase |-> "returned", call |-> analysis.call, reply |-> reply,
                    decision |-> AdvisedDecision(analysis.call.coin,
                                                 analysis.call.rule, reply)]
    /\ UNCHANGED <<config, isRunning, marketData, accountData, latestDecisions,
                   lastAnalysisTime, isProcessing, protectedPositions, scan,
                   now, exchange, out, algo, backtest, sizer, feed>>

\* server.ts:92-158: the decision loop of the live scan takes the decision up
\* to its first exchange call
DecisionExecuted ==
    /\ analysis.phase = "returned"
    /\ ~analysis.call.isBacktest
    /\ LET coin == analysis.call.coin
           c == [Ctx(1) EXCEPT !.loc.decisions = <<analysis.decision>>,
                               !.loc.insts = Coins,
                               !.loc.strat = LiveStrategy,
                               !.market = Some([k \in {coin} |-> analysis.call.m]),
                               !.account = Some(analysis.call.account)]
           after == DecideFrom(c, 1)
       IN  analysis' = [analysis EXCEPT !.phase = "executed"] @@
                       [sent |-> after.call, step |-> after.step,
                        sized |-> IF after.loc.pc = "idle" THEN analysis.decision
                                  ELSE after.loc.decisions[1]]
    /\ UNCHANGED <<config, isRunning, marketData, accountData, latestDecisions,
                   lastAnalysisTime, isProcessing, protectedPositions, scan,
                   now, exchange, out, algo, backtest, sizer, feed>>

\* server.ts:126-132: setLeverage resolves, with whatever code, and after
\* the pause the entry order is sent
EntryOrderSent ==
    /\ analysis.phase = "executed"
    /\ analysis.sent.op = "setLeverage"
    /\ analysis' = [analysis EXCEPT !.phase = "ordered",
                                    !.sent = OrderCall(analysis.sized)]
    /\ UNCHANGED <<config, isRunning, marketData, accountData, latestDecisions,
                   lastAnalysisTime, isProcessing, protectedPositions, scan,
                   now, exchange, out, algo, backtest, sizer, feed>>

AnalysisNext ==
    \/ /\ analysis.phase = "none"
       /\ \E coin \in Coins, h \in Bars1H, m \in Bars3m, ex \in Holdings,
             key \in BOOLEAN, isBacktest \in BOOLEAN :
               analyzeCoinCalled(coin, h, m, ex, key, isBacktest)
    \/ \E reply \in Replies : AdvisoryReturn(reply)
    \/ DecisionExecuted
    \/ EntryOrderSent

SpecAnalysis == Init /\ [][AnalysisNext]_vars

\* the side an entry opens (okxService.ts:182)
EntrySide(action) == IF action = "BUY" THEN "long" ELSE "short"

\* the account of the call shows an open position on the instrument and side
Held(account, instId, posSide) ==
    \E j \in 1..Len(account.positions) :
        /\ account.positions[j].instId = instId
        /\ account.positions[j].posSide = posSide
        /\ account.positions[j].pos # 0

\* C13: the live loop sends no entry order (BUY or SELL) for a symbol and
\* side on which the account snapshot already shows an open position,
\* whether the decision comes from the rule engine or from the advisory reply.
NoEntryOnHeldSide ==
    (/\ analysis.phase = "ordered"
     /\ analysis.sent.op = "executeOrder"
     /\ analysis.decision.action \in {"BUY", "SELL"})
        => ~Held(analysis.call.account, analysis.decision.instId,
                 EntrySide(analysis.decision.action))

\* C19: when the advisory call fails, is unreachable or returns a payload
\* that cannot be parsed into a decision, analyzeCoin returns a decision
\* whose action is the rule-based action, one of the five actions, with the
\* reasoning marked as fallback.
AdvisoryFallback ==
    (/\ analysis.phase = "returned"
     /\ analysis.reply.kind \in {"unreachable", "garbled", "empty"})
        => /\ analysis.decision.action = analysis.call.rule.action
           /\ analysis.decision.action \in Actions
           /\ Len(analysis.decision.reasoning) > 0
           /\ analysis.decision.reasoning[1] = FallbackTag

\* the account of the call holds no position on the coin
Flat(call) == FindPos(call.account.positions, InstIdOf(call.coin), 1) = 0

\* the rule of the claim for a trend and the latest 3m bar: BUY for an up
\* trend with the fast EMA above the slow one, SELL for a down trend with the
\* fast EMA not above it, HOLD otherwise and when there is no indicator
RuleFor(trend, present, fast, slow) ==
    IF present /\ trend = "UP" /\ fast > slow THEN "BUY"
    ELSE IF present /\ trend = "DOWN" /\ fast <= slow THEN "SELL"
    ELSE "HOLD"

\* C20: for a symbol with no open position the rule-based decision is BUY
\* only for an up trend with a bullish cross, SELL only for a down trend with
\* a bearish cross (the fast EMA not above the slow one) and HOLD in every
\* other case (neutral trend, missing indicators), always with a reason; in
\* services/aiService.ts and in the variant of part_000.
RuleBasedEntry ==
    (analysis.phase # "none" /\ Flat(analysis.call))
        => LET call == analysis.call
               m == call.m
           IN  /\ call.plain.action
                     = RuleFor(analyze1HTrend(m), m.n3m >= 1, m.m15, m.m60)
               /\ call.rule.action
                     = RuleFor(analyze1HTrendAdvised(m), m.n3m >= 2, m.m15, m.m60)
               /\ call.plainReason # ""
               /\ call.rule.reason # ""
               /\ (analysis.phase = "returned" /\ analysis.reply.kind = "none")
                     => /\ analysis.decision.action = call.rule.action
                        /\ analysis.decision.reasoning = <<call.rule.reason>>

\* a flat account, an up trend and a golden cross: both engines say BUY
RuleBasedEntryWitness ==
    /\ analysis.phase = "returned"
    /\ Flat(analysis.call)
    /\ analysis.call.plain.action = "BUY"
    /\ analysis.call.rule.action = "BUY"
    /\ analysis.decision.action = "BUY"

-----------------------------------------------------------------------------
(* placeAlgoStrategy on its own (unnamed/part_000:235-302): the sizes of the
   four exit legs, for a lot size of one contract (sizePrecision 0); sizes
   are kept in hundredths of a contract, which holds size * 0.30 and
   size * 0.20 exactly *)

\* largest position size, in contracts
MaxSz == 12

\* the minSz of the instrument, in contracts
MinSzs == 1..3

\* part_000:272-274: the three fixed fractions, in percent
Tiers == <<30, 30, 20>>

\* Number.prototype.toFixed(0) of a non-negative size: to the nearest whole
\* contract, a half goes up
toFixed0(x) == ((x + 50) \div 100) * 100

\* part_000:263-270 calculateGreedySize(pct) on the closure's remaining
calculateGreedySize(a, pct) ==
    IF a.remaining <= 0 THEN [a EXCEPT !.legs = Append(@, 0)]
    ELSE LET intended == (a.size \div 100) * pct
             wanted == IF intended >= a.minSz THEN intended ELSE a.minSz
             final == IF wanted > a.remaining THEN a.remaining ELSE wanted
         IN  [a EXCEPT !.remaining = toFixed0(a.remaining - final),
                       !.legs = Append(@, toFixed0(final))]

\* part_000:235-262: the call, up to `let remaining = size`
placeAlgoStrategyCalled(size, minSz) ==
    /\ algo.phase = "none"
    /\ algo' = [phase |-> "sizing", size |-> 100 * size, minSz |-> 100 * minSz,
                remaining |-> 100 * size, legs |-> <<>>]
    /\ UNCHANGED <<config, isRunning, marketData, accountData, latestDecisions,
                   lastAnalysisTime, isProcessing, protectedPositions, scan,
                   now, exchange, out, analysis, backtest, sizer, feed>>

\* part_000:272-274: s1, s2, s3
GreedyLeg ==
    /\ algo.phase = "sizing"
    /\ Len(algo.legs) < Len(Tiers)
    /\ algo' = calculateGreedySize(algo, Tiers[Len(algo.legs) + 1])
    /\ UNCHANGED <<config, isRunning, marketData, accountData, latestDecisions,
                   lastAnalysisTime, isProcessing, protectedPositions, scan,
                   now, exchange, out, analysis, backtest, sizer, feed>>

\* part_000:275: s4 is what remains
RemainderLeg ==
    /\ algo.phase = "sizing"
    /\ Len(algo.legs) = Len(Tiers)
    /\ algo' = [algo EXCEPT !.phase = "sized",
                            !.legs = Append(@, toFixed0(algo.remaining))]
    /\ UNCHANGED <<config, isRunning, marketData, accountData, latestDecisions,
                   lastAnalysisTime, isProcessing, protectedPositions, scan,
                   now, exchange, out, analysis, backtest, sizer, feed>>

AlgoNext ==
    \/ \E size \in 1..MaxSz, minSz \in MinSzs : placeAlgoStrategyCalled(size, minSz)
    \/ GreedyLeg
    \/ RemainderLeg

SpecAlgo == Init /\ [][AlgoNext]_vars

RECURSIVE SumOf(_, _)
SumOf(seq, i) == IF i > Len(seq) THEN 0 ELSE seq[i] + SumOf(seq, i + 1)

\* C14: for every position size that is a multiple of the lot size and every
\* minSz the four leg sizes, before the legs below minSz are dropped, are
\* non-negative and sum to the position size; size 10 with minSz 1 gives
\* the legs 3, 3, 2, 2.
LegsSumToSize ==
    algo.phase = "sized"
        => /\ Len(algo.legs) = Len(Tiers) + 1
           /\ \A i \in 1..Len(algo.legs) : algo.legs[i] >= 0
           /\ SumOf(algo.legs, 1) = algo.size
           /\ (algo.size = 1000 /\ algo.minSz = 100)
                 => algo.legs = <<300, 300, 200, 200>>

-----------------------------------------------------------------------------
(* POST /api/backtest/run: the simulation loop of server.ts:253-321 and of
   the variant with a stop-loss, constants.ts:244-342. Money is kept in
   cents and prices in tenths; a quotient is cut to a whole unit. *)

\* candles replayed by one request
MaxSteps == 3

\* btConfig.initialBalance, in cents (1000 USDT)
InitialBalances == {100000}

\* the 3m candles of the replay: close, low, high
Candle(c, l, h) == [c |-> c, l |-> l, h |-> h]

Candles ==
    {Candle(1000, 990, 1010), Candle(1040, 1000, 1050),
     Candle(960, 950, 1000), Candle(940, 940, 1060)}

\* the strategy of the request body: leverage, initialRisk in percent and
\* initialStopLossRoi in percent (part_000:529), which constants.ts:17-27
\* does not set
LabStrategy(lev, risk, slRoi) ==
    [leverage |-> lev, initialRisk |-> risk, initialStopLossRoi |-> slRoi]

LabStrategies ==
    {LabStrategy(20, 15, Null), LabStrategy(20, 15, Some(10)),
     LabStrategy(25, 100, Null)}

\* +1 for a long position, -1 for a short one
SideSign(side) == IF side = "long" THEN 1 ELSE 0 - 1

\* balance * strategy.initialRisk (server.ts:288, constants.ts:312)
MarginOf(balance, strategy) == (balance * strategy.initialRisk) \div 100

\* margin * TAKER_FEE_RATE (server.ts:291, 307; constants.ts:294, 315)
FeeOf(margin) == (margin * TAKER_FEE_RATE) \div 10000

\* Math.floor((margin * leverage) / (ctVal * price)) (server.ts:289)
BacktestContracts(margin, strategy, price) ==
    (margin * strategy.leverage * 10) \div (CtValOf("BTC") * price)

\* (exit - entryPrice) / entryPrice * side * margin * leverage
\* (server.ts:306, 314; constants.ts:293, 335)
PnlAt(pos, exit, strategy) ==
    ((exit - pos.entryPrice) * SideSign(pos.side) * pos.margin * strategy.leverage)
        \div pos.entryPrice

\* part_000:511 hardSL, the stop_loss of a BUY or SELL decision of the rule
\* engine; without initialStopLossRoi it is NaN (here Null)
HardSL(action, price, strategy) ==
    IF strategy.initialStopLossRoi.null THEN Null
    ELSE LET d == (price * strategy.initialStopLossRoi.v)
                      \div (strategy.leverage * 100)
         IN  Some(IF action = "BUY" THEN price - d ELSE price + d)

\* constants.ts:316: parseFloat(stop_loss) || (BUY ? price * 0.95 : price * 1.05)
SlValue(action, price, strategy) ==
    LET hard == HardSL(action, price, strategy)
    IN  IF ~hard.null /\ hard.v # 0 THEN hard.v
        ELSE IF action = "BUY" THEN (price * 95) \div 100
        ELSE (price * 105) \div 100

Trade(type, price, fee, profit, reason) ==
    [type |-> type, price |-> price, fee |-> fee, profit |-> profit,
     reason |-> reason]

\* the entry fee is not taken from the balance
KeepBalance(balance, fee) == balance

\* server.ts:292, constants.ts:315: balance -= fee
DebitFee(balance, fee) == balance - fee

\* server.ts:287-304, constants.ts:311-333: a position is opened at the close
OpenPosition(b, action, price, withSl) ==
    LET margin == MarginOf(b.balance, b.strategy)
        contracts == BacktestContracts(margin, b.strategy, price)
        fee == FeeOf(margin)
        side == IF action = "BUY" THEN "long" ELSE "short"
        sl == IF withSl THEN SlValue(action, price, b.strategy) ELSE 0
    IN  IF contracts > 0
        THEN [b EXCEPT !.balance = DebitFee(@, fee),
                       !.position = Some([side |-> side, contracts |-> contracts,
                                          entryPrice |-> price, margin |-> margin,
                                          sl |-> sl]),
                       !.trades = Append(@, Trade(action, price, fee, 0, "entry"))]
        ELSE b

\* server.ts:305-312, constants.ts:291-307: the position is closed at exit
ClosePosition(b, exit, reason) ==
    LET pos == b.position.v
        pnl == PnlAt(pos, exit, b.strategy)
        fee == FeeOf(pos.margin)
    IN  [b EXCEPT !.balance = @ + (pnl - fee),
                  !.position = Null,
                  !.trades = Append(@, Trade("CLOSE", exit, fee, pnl - fee, reason))]

\* constants.ts:288-289: the candle reaches the stop-loss of the position
isSLTriggered(pos, candle) ==
    \/ pos.side = "long" /\ candle.l <= pos.sl
    \/ pos.side = "short" /\ candle.h >= pos.sl

\* the exit is always at the close of the candle
ExitPriceAtClose(triggered, slPrice, price) == price

\* constants.ts:292
ExitPrice(triggered, slPrice, price) == IF triggered THEN slPrice ELSE price

\* constants.ts:284-308: the stop-loss check and the close of the decision
CloseStep(b, candle, action) ==
    IF b.position.null THEN b
    ELSE LET triggered == isSLTriggered(b.position.v, candle)
         IN  IF triggered \/ action = "CLOSE"
             THEN ClosePosition(b, ExitPrice(triggered, b.position.v.sl, candle.c),
                                IF triggered THEN "stopLoss" ELSE "decision")
             ELSE b

\* constants.ts:311-333
OpenStep(b, candle, action) ==
    IF b.position.null /\ action \in {"BUY", "SELL"}
    THEN OpenPosition(b, action, candle.c, TRUE)
    ELSE b

\* server.ts:287-312
ExecuteDecision(b, candle, action) ==
    IF action \in {"BUY", "SELL"} /\ b.position.null
    THEN OpenPosition(b, action, candle.c, FALSE)
    ELSE IF action = "CLOSE" /\ ~b.position.null
    THEN ClosePosition(b, candle.c, "decision")
    ELSE b

\* server.ts:314, constants.ts:335: the balance and the open position at price
currentEquity(b, price) ==
    b.balance + (IF b.position.null THEN 0
                 ELSE PnlAt(b.position.v, price, b.strategy))

\* (peak - currentEquity) / peak in percent
DrawdownOf(peak, equity) == ((peak - equity) * 100) \div peak

\* server.ts:315-317
MarkServer(b, price) ==
    LET equity == currentEquity(b, price)
        peak == IF equity > b.peak THEN equity ELSE b.peak
        dd == DrawdownOf(peak, equity)
    IN  [b EXCEPT !.equity = equity, !.peak = peak, !.dd = dd,
                  !.maxDD = IF dd > @ THEN dd ELSE @]

\* constants.ts:336-337
MarkConstants(b, price) ==
    LET equity == currentEquity(b, price)
        peak == IF equity > b.peak THEN equity ELSE b.peak
        dd == IF peak > 0 THEN DrawdownOf(peak, equity) ELSE 0
    IN  [b EXCEPT !.equity = equity, !.peak = peak, !.dd = dd,
                  !.maxDD = IF dd > @ THEN dd ELSE @]

\* one pass of the loop body after the decision is known
SimulateStep(b, candle, action) ==
    IF b.variant = "server"
    THEN MarkServer(ExecuteDecision(b, candle, action), candle.c)
    ELSE MarkConstants(OpenStep(CloseStep(b, candle, action), candle, action),
                       candle.c)

\* the advisory service is asked whenever a key is passed
BacktestDecisionAdvised(apiKey, isBacktest, rule, reply) ==
    IF apiKey THEN reply ELSE rule

\* part_000:551: in a backtest, or without a key, analyzeCoin returns the
\* decision of the rule engine and does not ask the advisory service
BacktestDecision(apiKey, isBacktest, rule, reply) ==
    IF isBacktest \/ ~apiKey THEN rule ELSE reply

\* the key passed to analyzeCoin: server.ts:284 config.deepseekApiKey,
\* constants.ts:281 ""
KeyPassed(variant, cfg) == variant = "server" /\ cfg.deepseekApiKey

\* the isBacktest argument is not passed
IsLive == FALSE

\* server.ts:284, constants.ts:281: the isBacktest argument of analyzeCoin
IsBacktest == TRUE

Variants == {"server", "constants"}

NoCandle == Candle(0, 0, 0)

\* what the request meets: an instrument fetchInstruments does not list
\* ("unknown"), a listed one with no candle fetched at or after startTime
\* ("none"), with candles fetched only after endTime ("laterOnly"), or with
\* candles inside the range ("some")
SeriesKinds == {"unknown", "none", "laterOnly", "some"}

\* constants.ts:242-243: startIndex === -1, no candle at or after startTime;
\* server.ts:247-250 filters the series and has no such test
StartIndexMissing(variant, series) ==
    variant = "constants" /\ series = "none"

\* server.ts:224-258, constants.ts:224-250: an unknown instrument is answered
\* with status 400 before anything is fetched; otherwise the simulation
\* starts flat
BacktestRequested(variant, strategy, initialBalance, series) ==
    /\ backtest.phase = "none"
    /\ backtest' = [phase |-> IF series = "unknown" THEN "rejected"
                              ELSE "running",
                    series |-> series, variant |-> variant,
                    strategy |-> strategy, initialBalance |-> initialBalance,
                    balance |-> initialBalance, position |-> Null,
                    peak |-> initialBalance, maxDD |-> 0, dd |-> 0,
                    equity |-> initialBalance, i |-> 0, trades |-> <<>>,
                    candle |-> NoCandle, rule |-> "HOLD", action |-> "HOLD",
                    key |-> FALSE]
    /\ UNCHANGED <<progVars, now, exchange, out, analysis, algo, sizer, feed>>

\* the rule engine decides with no regard to the position
RuleActionsAny(position) == Actions

\* part_000:530-549 with server.ts:273-284, constants.ts:270-281: the virtual
\* account lists the open position under the instrument of the ticker, so
\* the rule engine answers CLOSE or HOLD while a position is open and BUY,
\* SELL or HOLD while none is
RuleActions(position) ==
    IF position.null THEN {"BUY", "SELL", "HOLD"} ELSE {"CLOSE", "HOLD"}

\* server.ts:260-322, constants.ts:252-342: one candle of the replay
BacktestStep(candle, rule, reply) ==
    /\ backtest.phase = "running"
    /\ backtest.series = "some"
    /\ backtest.i < MaxSteps
    /\ LET key == KeyPassed(backtest.variant, config)
           action == BacktestDecision(key, IsBacktest, rule, reply)
           after == SimulateStep(backtest, candle, action)
       IN  backtest' = [after EXCEPT !.i = @ + 1, !.candle = candle,
                                     !.rule = rule, !.action = action,
                                     !.key = key]
    /\ UNCHANGED <<progVars, now, exchange, out, analysis, algo, sizer, feed>>

\* server.ts:324-346, constants.ts:344-361: the result is sent
BacktestDone ==
    /\ backtest.phase = "running"
    /\ ~StartIndexMissing(backtest.variant, backtest.series)
    /\ backtest' = [backtest EXCEPT
                        !.phase = "done",
                        !.candle = NoCandle]
    /\ UNCHANGED <<progVars, now, exchange, out, analysis, algo, sizer, feed>>

\* constants.ts:243, 362-365: no candle at or after startTime throws, and the
\* catch answers with status 500 and the message
BacktestFailed ==
    /\ backtest.phase = "running"
    /\ StartIndexMissing(backtest.variant, backtest.series)
    /\ backtest' = [backtest EXCEPT !.phase = "failed"]
    /\ UNCHANGED <<progVars, now, exchange, out, analysis, algo, sizer, feed>>

\* res.json(result): finalBalance, totalProfit, maxDrawdown and trades
BacktestResult(b) ==
    [finalBalance |-> b.balance,
     totalProfit |-> b.balance - b.initialBalance,
     maxDrawdown |-> b.maxDD,
     trades |-> b.trades]

BacktestNext ==
    \/ /\ backtest.phase = "none"
       /\ \E variant \in Variants, strategy \in LabStrategies,
             initialBalance \in InitialBalances, series \in SeriesKinds :
               BacktestRequested(variant, strategy, initialBalance, series)
    \/ /\ backtest.phase = "running"
       /\ \E candle \in Candles, rule \in RuleActions(backtest.position),
             reply \in Actions :
               BacktestStep(candle, rule, reply)
    \/ BacktestDone
    \/ BacktestFailed
    \/ \E cfg \in Configs : PostConfig(cfg)
    \/ \E r \in BOOLEAN : Toggle(r)

SpecBacktest == Init /\ [][BacktestNext]_vars

-----------------------------------------------------------------------------
(* Properties of the backtest *)

\* the step just taken replayed a candle
Replayed == 
    /\ backtest.phase = "running"
    /\ backtest'.phase = "running"
    /\ backtest'.i = backtest.i + 1

\* the candle of the step just taken reaches the stop-loss of the position
\* that was open before it
Touched ==
    /\ ~backtest.position.null
    /\ \/ /\ backtest.position.v.side = "long"
          /\ backtest'.candle.l <= backtest.position.v.sl
       \/ /\ backtest.position.v.side = "short"
          /\ backtest'.candle.h >= backtest.position.v.sl

\* C15: in a step of the backtest with a stop-loss (constants.ts) that starts
\* with an open position whose stop-loss the candle touches (low for a long,
\* high for a short), the position is closed in that step at the stop-loss
\* price and the trade is recorded as a stop-loss exit, whatever the decision
\* of the step is (CLOSE and HOLD included).
StopLossPriority ==
    [][ (Replayed /\ backtest.variant = "constants" /\ Touched) =>
            LET n == Len(backtest.trades)
            IN  /\ Len(backtest'.trades) > n
                /\ backtest'.trades[n + 1].type = "CLOSE"
                /\ backtest'.trades[n + 1].price = backtest.position.v.sl
                /\ backtest'.trades[n + 1].reason = "stopLoss"
                /\ \/ backtest'.position.null
                   \/ /\ Len(backtest'.trades) = n + 2
                      /\ backtest'.trades[n + 2].type \in {"BUY", "SELL"}
      ]_vars

\* the decision of the step was CLOSE, and the position was closed by the
\* stop-loss at a price that is not the close of the candle
StopLossPriorityWitness ==
    /\ backtest.phase = "running"
    /\ backtest.variant = "constants"
    /\ backtest.action = "CLOSE"
    /\ backtest.trades # <<>>
    /\ LET last == backtest.trades[Len(backtest.trades)]
       IN  /\ last.type = "CLOSE"
           /\ last.reason = "stopLoss"
           /\ last.price # backtest.candle.c

RECURSIVE SumFees(_)
\* the fees of the trades of a list
SumFees(trades) ==
    IF trades = <<>> THEN 0 ELSE Head(trades).fee + SumFees(Tail(trades))

RECURSIVE SumProfit(_)
\* the profit recorded by the CLOSE trades of a list (net of the exit fee)
SumProfit(trades) ==
    IF trades = <<>> THEN 0
    ELSE (IF Head(trades).type = "CLOSE" THEN Head(trades).profit ELSE 0)
             + SumProfit(Tail(trades))

RECURSIVE SumRealized(_)
\* the realized P&L of the CLOSE trades of a list, before the exit fee
SumRealized(trades) ==
    IF trades = <<>> THEN 0
    ELSE (IF Head(trades).type = "CLOSE"
          THEN Head(trades).profit + Head(trades).fee ELSE 0)
             + SumRealized(Tail(trades))

\* the trades of a list that open a position
Entries(trades) == SelectSeq(trades, LAMBDA t : t.type \in {"BUY", "SELL"})

\* C16: at every point of a backtest the cash balance is the initial balance
\* plus the realized P&L of all closed trades minus all fees of the trade
\* list (the entry fee of every open and the exit fee of every close), and
\* the finalBalance and totalProfit of the result agree with the trade list.
CashMatchesTrades ==
    backtest.phase # "none" =>
        /\ backtest.balance = backtest.initialBalance
                                + SumRealized(backtest.trades)
                                - SumFees(backtest.trades)
        /\ BacktestResult(backtest).finalBalance
               = backtest.initialBalance + SumProfit(backtest.trades)
                   - SumFees(Entries(backtest.trades))
        /\ BacktestResult(backtest).totalProfit
               = SumProfit(backtest.trades) - SumFees(Entries(backtest.trades))
        /\ BacktestResult(backtest).trades = backtest.trades

\* a result is sent after a position was opened for a fee and closed with a
\* loss and an exit fee
CashMatchesTradesWitness ==
    /\ backtest.phase = "done"
    /\ Len(backtest.trades) >= 2
    /\ backtest.trades[1].type \in {"BUY", "SELL"}
    /\ backtest.trades[1].fee > 0
    /\ backtest.trades[2].type = "CLOSE"
    /\ backtest.trades[2].fee > 0
    /\ backtest.trades[2].profit < 0
    /\ backtest.balance < backtest.initialBalance

\* C17: at every step of a backtest the equity is the cash balance plus the
\* mark-to-market P&L of the open position, the peak is at least the equity,
\* and the drawdown of the step and the maximum drawdown are between 0 and 1
\* (here in percent: between 0 and 100), whatever the candles, the leverage
\* and the risk fraction are.
DrawdownInUnitRange ==
    (backtest.phase = "running" /\ backtest.i > 0) =>
        /\ backtest.equity = currentEquity(backtest, backtest.candle.c)
        /\ backtest.peak >= backtest.equity
        /\ backtest.dd >= 0 /\ backtest.dd <= 100
        /\ backtest.maxDD >= 0 /\ backtest.maxDD <= 100

\* the state of the live loop: the flags, the registry, the decision cache,
\* the last-pass timestamp, the snapshots, the scans in progress and the
\* log lines of the latest step
liveState ==
    <<isRunning, isProcessing, protectedPositions, latestDecisions,
      lastAnalysisTime, marketData, accountData, scan, out>>

-----------------------------------------------------------------------------
(* The decision for a held position *)

\* the trend runs against the side of a position
Against(posSide, trend) ==
    \/ posSide = "long" /\ trend = "DOWN"
    \/ posSide = "short" /\ trend = "UP"

\* the side of the position the account of the call holds on the coin
HeldSide(call) ==
    call.account.positions[FindPos(call.account.positions,
                                   InstIdOf(call.coin), 1)].posSide

\* C21: for a symbol with an open position the rule-based decision is CLOSE
\* exactly when the trend is opposite to the side of the position (long with
\* DOWN, short with UP); otherwise it is HOLD, or the breakeven update in
\* services/aiService.ts; it is never BUY or SELL.
HeldDecision ==
    (analysis.phase # "none" /\ ~Flat(analysis.call))
        => LET call == analysis.call
               side == HeldSide(call)
           IN  /\ call.plain.action = "CLOSE"
                     <=> Against(side, analyze1HTrend(call.m))
               /\ call.plain.action \in {"CLOSE", "HOLD", "UPDATE_TPSL"}
               /\ call.rule.action = "CLOSE"
                     <=> Against(side, analyze1HTrendAdvised(call.m))
               /\ call.rule.action \in {"CLOSE", "HOLD"}

\* a long BTC position and a down trend with a dead cross, which would be a
\* SELL signal for a flat account: both engines say CLOSE
HeldDecisionWitness ==
    /\ analysis.phase # "none"
    /\ analysis.call.coin = "BTC"
    /\ ~Flat(analysis.call)
    /\ HeldSide(analysis.call) = "long"
    /\ analyze1HTrend(analysis.call.m) = "DOWN"
    /\ analyze3mEntry(analysis.call.m, "DOWN") = "SELL"
    /\ analysis.call.plain.action = "CLOSE"
    /\ analysis.call.rule.action = "CLOSE"

-----------------------------------------------------------------------------
(* The contract count in JavaScript numbers (IEEE 754 binary64): server.ts:
   113-116 and 288-289 compute it with one rounding after every product and
   quotient. A significand is kept as 8 limbs of 14 bits, least significant
   first; a number is m * 2^e with 2^52 <= m < 2^53. Only positive numbers
   occur. *)

LimbBits == 14
LimbBase == 16384
SignificandBits == 53

Tup8(F(_)) == <<F(1), F(2), F(3), F(4), F(5), F(6), F(7), F(8)>>

ZeroLimbs == Tup8(LAMBDA i : 0)
OneLimbs == Tup8(LAMBDA i : IF i = 1 THEN 1 ELSE 0)

\* the limbs of a natural below 2^31
LimbsOf(n) ==
    Tup8(LAMBDA i : IF i = 1 THEN n % LimbBase
                    ELSE IF i = 2 THEN (n \div LimbBase) % LimbBase
                    ELSE IF i = 3 THEN n \div (LimbBase * LimbBase)
                    ELSE 0)

\* the natural of limbs that hold less than 2^31
NatOf(a) == a[1] + a[2] * LimbBase + a[3] * LimbBase * LimbBase

RECURSIVE CarryInto(_, _)
CarryInto(r, i) ==
    IF i = 1 THEN 0 ELSE (r[i - 1] + CarryInto(r, i - 1)) \div LimbBase

\* limbs from columns that may exceed the base
Normalize(r) == Tup8(LAMBDA i : (r[i] + CarryInto(r, i)) % LimbBase)

AddLimbs(a, b) == Normalize(Tup8(LAMBDA i : a[i] + b[i]))

RECURSIVE BorrowInto(_, _, _)
BorrowInto(a, b, i) ==
    IF i = 1 THEN 0
    ELSE IF a[i - 1] - b[i - 1] - BorrowInto(a, b, i - 1) < 0 THEN 1 ELSE 0

\* a - b for a >= b
SubLimbs(a, b) ==
    Tup8(LAMBDA i : (a[i] - b[i] - BorrowInto(a, b, i) + LimbBase) % LimbBase)

RECURSIVE GeFrom(_, _, _)
GeFrom(a, b, i) ==
    IF i = 0 THEN TRUE
    ELSE IF a[i] > b[i] THEN TRUE
    ELSE IF a[i] < b[i] THEN FALSE
    ELSE GeFrom(a, b, i - 1)

GeLimbs(a, b) == GeFrom(a, b, 8)

\* bit k (from 0) of a
BitAt(a, k) == (a[k \div LimbBits + 1] \div 2 ^ (k % LimbBits)) % 2

RECURSIVE TopLimb(_, _)
\* the highest limb of a that is not 0, from limb i downwards
TopLimb(a, i) ==
    IF i = 0 THEN 0 ELSE IF a[i] # 0 THEN i ELSE TopLimb(a, i - 1)

RECURSIVE BitsOf(_)
BitsOf(n) == IF n = 0 THEN 0 ELSE 1 + BitsOf(n \div 2)

\* the number of bits of a
BitLen(a) ==
    LET t == TopLimb(a, 8)
    IN  IF t = 0 THEN 0 ELSE (t - 1) * LimbBits + BitsOf(a[t])

LimbAt(a, i) == IF i >= 1 /\ i <= 8 THEN a[i] ELSE 0

\* a shifted right by s bits
ShiftRight(a, s) ==
    LET lo == s \div LimbBits
        b == s % LimbBits
    IN  Tup8(LAMBDA i : (LimbAt(a, i + lo) \div 2 ^ b)
                          + (LimbAt(a, i + lo + 1) % 2 ^ b) * 2 ^ (LimbBits - b))

\* a shifted left by s bits (the result fits the limbs)
ShiftLeft(a, s) ==
    LET lo == s \div LimbBits
        b == s % LimbBits
    IN  Tup8(LAMBDA i : ((LimbAt(a, i - lo) * 2 ^ b) % LimbBase)
                          + (LimbAt(a, i - lo - 1) \div 2 ^ (LimbBits - b)))

\* the bits of a below bit k are all 0
LowZero(a, k) == ShiftLeft(ShiftRight(a, k), k) = a

RECURSIVE Column(_, _, _, _)
Column(a, b, k, i) ==
    IF i > k THEN 0 ELSE a[i] * b[k + 1 - i] + Column(a, b, k, i + 1)

\* a * b for a, b below 2^56
MulLimbs(a, b) == Normalize(Tup8(LAMBDA k : Column(a, b, k, 1)))

Binary64(m, e) == [m |-> m, e |-> e]

\* the number nearest to (n + f) * 2^e, where f is a fraction below 1 that is
\* not 0 exactly if sticky; ties go to the even significand
RoundNearestEven(n, e, sticky) ==
    LET s == BitLen(n) - SignificandBits
    IN  IF s <= 0 THEN Binary64(ShiftLeft(n, 0 - s), e + s)
        ELSE LET q == ShiftRight(n, s)
                 half == BitAt(n, s - 1) = 1
                 rest == sticky \/ ~LowZero(n, s - 1)
                 up == half /\ (rest \/ BitAt(n, s) = 1)
                 m == IF up THEN AddLimbs(q, OneLimbs) ELSE q
             IN  IF BitLen(m) > SignificandBits
                 THEN Binary64(ShiftRight(m, 1), e + s + 1)
                 ELSE Binary64(m, e + s)

\* x * y
Times(x, y) == RoundNearestEven(MulLimbs(x.m, y.m), x.e + y.e, FALSE)

RECURSIVE DivSteps(_, _, _)
\* n steps of the long division, a bit at a time, from
\* qr = <<quotient, remainder>>
DivSteps(qr, d, n) ==
    IF n = 0 THEN qr
    ELSE LET r2 == Normalize(Tup8(LAMBDA i : 2 * qr[2][i]))
             q2 == Normalize(Tup8(LAMBDA i : 2 * qr[1][i]))
         IN  IF GeLimbs(r2, d)
             THEN DivSteps(<<AddLimbs(q2, OneLimbs), SubLimbs(r2, d)>>, d, n - 1)
             ELSE DivSteps(<<q2, r2>>, d, n - 1)

\* x / y: the bit before the point and 55 bits after it, 11 at a time
Over(x, y) ==
    LET first == IF GeLimbs(x.m, y.m) THEN <<OneLimbs, SubLimbs(x.m, y.m)>>
                 ELSE <<ZeroLimbs, x.m>>
        d == y.m
        qr == DivSteps(DivSteps(DivSteps(DivSteps(DivSteps(
                  first, d, 11), d, 11), d, 11), d, 11), d, 11)
    IN  RoundNearestEven(qr[1], x.e - y.e - 55, qr[2] # ZeroLimbs)

\* the number of a positive integer below 2^31
NumberOf(n) == RoundNearestEven(LimbsOf(n), 0, FALSE)

\* parseFloat of a decimal n/d, and a literal such as 0.15: the number
\* nearest to the quotient
Decimal(n, d) == Over(NumberOf(n), NumberOf(d))

\* Math.floor of a number below 2^31
Floor(x) ==
    IF x.e >= 0 THEN NatOf(ShiftLeft(x.m, x.e))
    ELSE NatOf(ShiftRight(x.m, 0 - x.e))

\* accountData.balance.totalEq and btConfig.initialBalance, in USDT
Equities == {100, 1000}

\* initialRisk, ctVal and ticker.last as decimals <<numerator, denominator>>
Risks == {<<15, 100>>, <<1, 4>>}
CtVals == {<<1, 100>>, <<1, 10>>}
Prices == {<<5, 2>>, <<20, 1>>, <<3500, 1>>}
Leverages == {3, 20, 75}

\* decimal p is at most decimal q
AtMost(p, q) == p[1] * q[2] <= q[1] * p[2]

\* server.ts:111-115, 288-289: the inputs are parsed. The call is followed
\* for the equity eq and the price, and also for a second equity and a second
\* price that are at least as large
SizerCalled(eq, eqUp, risk, ctVal, price, priceUp, leverage) ==
    /\ sizer.phase = "none"
    /\ sizer' = [phase |-> "parsed",
                 in |-> [eq |-> eq, eqUp |-> eqUp, risk |-> risk, ctVal |-> ctVal,
                         price |-> price, priceUp |-> priceUp,
                         leverage |-> leverage],
                 eq |-> NumberOf(eq), eqUp |-> NumberOf(eqUp),
                 risk |-> Decimal(risk[1], risk[2]),
                 ctVal |-> Decimal(ctVal[1], ctVal[2]),
                 price |-> Decimal(price[1], price[2]),
                 priceUp |-> Decimal(priceUp[1], priceUp[2]),
                 leverage |-> NumberOf(leverage)]
    /\ UNCHANGED <<progVars, now, exchange, out, analysis, algo, backtest, feed>>

\* server.ts:114 targetMargin = eq * initialRisk (288 margin), and the
\* product ctVal * price of server.ts:115 and 289
SizerProducts ==
    /\ sizer.phase = "parsed"
    /\ sizer' = [phase |-> "products", in |-> sizer.in,
                 leverage |-> sizer.leverage,
                 targetMargin |-> Times(sizer.eq, sizer.risk),
                 targetMarginUp |-> Times(sizer.eqUp, sizer.risk),
                 notional |-> Times(sizer.ctVal, sizer.price),
                 notionalUp |-> Times(sizer.ctVal, sizer.priceUp)]
    /\ UNCHANGED <<progVars, now, exchange, out, analysis, algo, backtest, feed>>

\* server.ts:115 marginPerContract = (ctVal * price) / leverage, and the
\* product margin * leverage of server.ts:289
SizerPerContract ==
    /\ sizer.phase = "products"
    /\ sizer' = [phase |-> "perContract", in |-> sizer.in,
                 targetMargin |-> sizer.targetMargin,
                 targetMarginUp |-> sizer.targetMarginUp,
                 notional |-> sizer.notional,
                 marginPerContract |-> Over(sizer.notional, sizer.leverage),
                 marginPerContractUp |-> Over(sizer.notionalUp, sizer.leverage),
                 leveraged |-> Times(sizer.targetMargin, sizer.leverage)]
    /\ UNCHANGED <<progVars, now, exchange, out, analysis, algo, backtest, feed>>

\* server.ts:116 contracts = Math.floor(targetMargin / marginPerContract) for
\* the call, for the larger equity and for the larger price; server.ts:289
\* contracts = Math.floor((margin * leverage) / (ctVal * price)) for the call
SizerCount ==
    /\ sizer.phase = "perContract"
    /\ sizer' = [phase |-> "done", in |-> sizer.in,
                 contracts |-> Floor(Over(sizer.targetMargin,
                                          sizer.marginPerContract)),
                 contractsEqUp |-> Floor(Over(sizer.targetMarginUp,
                                              sizer.marginPerContract)),
                 contractsPriceUp |-> Floor(Over(sizer.targetMargin,
                                                 sizer.marginPerContractUp)),
                 lab |-> Floor(Over(sizer.leveraged, sizer.notional))]
    /\ UNCHANGED <<progVars, now, exchange, out, analysis, algo, backtest, feed>>

SizerNext ==
    \/ /\ sizer.phase = "none"
       /\ \E eq \in Equities, eqUp \in Equities, risk \in Risks, ctVal \in CtVals,
             price \in Prices, priceUp \in Prices, leverage \in Leverages :
               /\ eq <= eqUp
               /\ AtMost(price, priceUp)
               /\ SizerCalled(eq, eqUp, risk, ctVal, price, priceUp, leverage)
    \/ SizerProducts
    \/ SizerPerContract
    \/ SizerCount

SpecSizer == Init /\ [][SizerNext]_vars

\* C22: the contract count of the live sizer does not decrease when the
\* equity grows and does not increase when the price grows, the other inputs
\* being the same, and the backtest sizer gives the same count as the live
\* sizer for the same inputs.
SizerMonotoneAndSame ==
    sizer.phase = "done" =>
        /\ sizer.contracts <= sizer.contractsEqUp
        /\ sizer.contractsPriceUp <= sizer.contracts
        /\ sizer.lab = sizer.contracts

-----------------------------------------------------------------------------
(* Determinism of the replay *)

-----------------------------------------------------------------------------
(* Backtest requests without an instrument or without candles *)

\* C24: a backtest request for an unknown instrument, or for a time range
\* that contains no candle, is answered with a failure (status 400 or 500)
\* and never with a simulation result.
NoResultWithoutCandles ==
    (backtest.phase # "none" /\ backtest.series # "some") =>
        backtest.phase \in {"running", "rejected", "failed"}

-----------------------------------------------------------------------------
(* The trend stage *)

\* part_001:56-64 analyze1HTrend: as services/aiService.ts:64-72 with a
\* minimum of 60 bars
analyze1HTrendPart001(m) ==
    IF m.n1H < 60 THEN "NEUTRAL"
    ELSE IF m.h15 = 0 \/ m.h60 = 0 THEN "NEUTRAL"
    ELSE IF m.c > m.h60 /\ m.h15 > m.h60 THEN "UP"
    ELSE IF m.c < m.h60 /\ m.h15 < m.h60 THEN "DOWN"
    ELSE "NEUTRAL"

Directions == {"UP", "DOWN", "NEUTRAL"}

\* the latest 1H bar carries no EMA values
NoEma1H(m) == m.h15 = 0 \/ m.h60 = 0

\* C25: the trend stage returns UP, DOWN or NEUTRAL, and returns NEUTRAL
\* whenever the 1H series has fewer bars than the minimum of the variant
\* (100, 60, 2) or its latest bar has no EMA values.
TrendStageNeutral ==
    analysis.phase # "none" =>
        LET m == analysis.call.m
        IN  /\ analyze1HTrend(m) \in Directions
            /\ analyze1HTrendPart001(m) \in Directions
            /\ analyze1HTrendAdvised(m) \in Directions
            /\ (m.n1H < 100 \/ NoEma1H(m)) => analyze1HTrend(m) = "NEUTRAL"
            /\ (m.n1H < 60 \/ NoEma1H(m)) => analyze1HTrendPart001(m) = "NEUTRAL"
            /\ (m.n1H < 2 \/ NoEma1H(m)) => analyze1HTrendAdvised(m) = "NEUTRAL"

-----------------------------------------------------------------------------
(* The registry of a stopped system *)

\* C26: whenever the running flag is false and no scan is in flight, the
\* protection registry is empty.
StoppedRegistryEmpty ==
    (~isRunning /\ ~isProcessing) => protectedPositions = {}

-----------------------------------------------------------------------------
(* Registry entries and the exchange's answer *)

\* C27: a key enters the protection registry only when the stop-loss order
\* was accepted (the exchange answered code '0', or the simulated update
\* returned it); when updatePositionTPSL throws or the order is rejected, the
\* registry is unchanged by that step, so that the position stays eligible
\* on a later tick, and a thrown update is logged as an ERROR.
RegistryOnlyOnAccept ==
    [][ /\ \A k \in protectedPositions' \ protectedPositions :
              \/ out'.step = "protected"
              \/ out'.step = "protect" /\ config.isSimulation
        /\ (out'.slot # 0 /\ out'.from = "tpsl" /\ out'.step # "protected")
              => /\ scan[out'.slot].pc = "tpsl"
                 /\ PosId(accountData.v.positions[scan[out'.slot].i])
                        \notin protectedPositions'
                 /\ \E j \in 1..Len(out'.logs) : out'.logs[j] = "ERROR"
      ]_vars

-----------------------------------------------------------------------------
(* Progress of the breakeven sweep *)

\* the configuration the sweep is followed under: live, every credential set
FullConfig == Config(FALSE, TRUE, TRUE, TRUE, TRUE, LiveStrategy)

\* the market the sweep is followed under: one coin, too few 1H bars for a
\* trend, so that the decision pass sends no order
QuietMarket == [c \in {"BTC"} |-> ShortMarket(c)]

\* the steps of a scan under that market (server.ts:41-92, 154-166)
SweepStep(s) ==
    \/ TickStart(s)
    \/ MarketReturn(s, QuietMarket)
    \/ \E eq \in Eqs : AccountReturn(s, eq)
    \/ AccountThrow(s)
    \/ \E ok \in BOOLEAN : TpslReturn(s, ok)
    \/ TpslThrow(s)
    \/ SweepSleepDone(s)
    \/ InstrumentsReturn(s, Coins)
    \/ ExecSleepDone(s)

LiveNext ==
    \/ \E s \in Slots : SweepStep(s)
    \/ PostConfig(FullConfig)
    \/ \E r \in BOOLEAN : Toggle(r)
    \/ \E k \in Keys, u \in UplLevels : ExOpen(k, u)
    \/ \E k \in Keys : ExClose(k)
    \/ \E k \in Keys, u \in UplLevels : ExMove(k, u)

\* setInterval fires the tick every TICK_MS and a pending request settles, so
\* a scan step that stays possible is taken; an account fetch that is sent
\* again and again does not fail every time
SweepFairness ==
    /\ WF_vars(\E s \in Slots : SweepStep(s))
    /\ SF_vars(\E s \in Slots, eq \in Eqs : AccountReturn(s, eq))

SpecLive == Init /\ [][LiveNext]_vars /\ SweepFairness

\* position k is open with its net ROI at the trigger of the configured
\* strategy while the system runs against the exchange with its credentials
Due(k) ==
    /\ isRunning
    /\ ~config.isSimulation
    /\ ~CredentialsMissing(config)
    /\ exchange[k].open
    /\ exchange[k].upl - TAKER_FEE_RATE * 2 >= config.strategy.beTriggerRoi

\* the latest snapshot of the account lists no position under key k
Unlisted(k) ==
    /\ ~accountData.null
    /\ \A j \in 1..Len(accountData.v.positions) :
          PosId(accountData.v.positions[j]) # k

\* key k is in the registry from an earlier position: the account was seen
\* without the position afterwards, and a position is open on k again
Reopened(k) == k \in protectedPositions /\ Unlisted(k) /\ exchange[k].open

\* key k is not in the registry and no stop update of k awaits its answer
Unprotected(k) ==
    /\ k \notin protectedPositions
    /\ \A s \in Slots :
          scan[s].pc = "tpsl" => PosId(accountData.v.positions[scan[s].i]) # k

\* the breakeven stop of k is sent
StopSent(k) == out.call.op = UpdateTpsl /\ out.call.arg = k

\* C28: while the system keeps running, every open position whose net ROI
\* reaches beTriggerRoi is eventually sent a breakeven stop update (or stops
\* being such a position), whether its key is new to the registry or was
\* left there by an earlier position that was protected and then closed.
EveryDuePositionProtected ==
    \A k \in Keys :
        /\ (Due(k) /\ Unprotected(k)) ~> (StopSent(k) \/ ~Due(k))
        /\ (Due(k) /\ Reopened(k)) ~> (StopSent(k) \/ ~Due(k))

-----------------------------------------------------------------------------
(* Entries of one decision pass against maxPositions *)

\* a live configuration whose strategy allows one position
TightStrategy == Strategy(4, 2, Some(1))
TightConfig == Config(FALSE, TRUE, TRUE, TRUE, TRUE, TightStrategy)

PassNext ==
    \/ TickDrop
    \/ \E s \in Slots : ScanStep(s)
    \/ PostConfig(TightConfig)
    \/ \E r \in BOOLEAN : Toggle(r)
    \/ Advance
    \/ \E k \in Keys, u \in UplLevels : ExOpen(k, u)
    \/ \E k \in Keys : ExClose(k)
    \/ \E k \in Keys, u \in UplLevels : ExMove(k, u)

SpecPass == Init /\ [][PassNext]_vars

\* C29: in a decision pass the open positions of the account snapshot plus
\* the entry orders sent in the pass for instruments without an open
\* position never exceed the maxPositions of the strategy of the pass.
EntriesWithinMaxPositions ==
    \A s \in Slots :
        (scan[s].pc # "idle" /\ scan[s].opened > 0
            /\ ~scan[s].strat.maxPositions.null)
        => Len(accountData.v.positions) + scan[s].opened
               <= scan[s].strat.maxPositions.v

-----------------------------------------------------------------------------
(* The calls of one entry *)

\* the scan the latest step belongs to moved from await a to await b
Moved(a, b) ==
    /\ out'.slot # 0
    /\ scan[out'.slot].pc = a
    /\ scan'[out'.slot].pc = b

\* the latest step of a scan left await a
Left(a) == out'.slot # 0 /\ out'.from = a /\ scan[out'.slot].pc = a

\* the entry decision the scan of the latest step is executing, after it
EntryOf(sc) == sc.decisions[sc.d]

\* C30: for an entry decision the calls are made in the order setLeverage,
\* market order, trailing stop: the order is sent when the pause after
\* setLeverage ends, the trailing stop when the pause after an accepted order
\* (code '0') ends, each for the instrument of the same decision; an order
\* that is rejected or throws sends no trailing stop for the decision and
\* is logged as an ERROR.
EntryCallOrder ==
    [][ LET s == out'.slot
        IN  /\ out'.call.op = "setLeverage" =>
                  /\ s # 0 /\ scan'[s].pc = "lev"
                  /\ EntryOf(scan'[s]).action \in {"BUY", "SELL"}
                  /\ out'.call.arg = EntryOf(scan'[s]).instId
            /\ (s # 0 /\ scan'[s].pc = "levSleep") => scan[s].pc = "lev"
            /\ (out'.call.op = "executeOrder" /\ out'.step = "entryOrder") =>
                  /\ Left("levSleep")
                  /\ scan'[s].d = scan[s].d
                  /\ out'.call = OrderCall(EntryOf(scan[s]))
            /\ (s # 0 /\ scan'[s].pc = "orderSleep") =>
                  /\ scan'[s].d = scan[s].d
                  /\ \/ scan[s].pc = "order" /\ out'.step = "orderDone"
                     \/ scan[s].pc = "levSleep" /\ config.isSimulation
            /\ out'.call.op = "placeTrailingStop" =>
                  /\ Left("orderSleep")
                  /\ scan'[s].pc = "trail"
                  /\ scan'[s].d = scan[s].d
                  /\ out'.call.arg = EntryOf(scan[s]).instId
            /\ (Left("order") /\ out'.step # "orderDone") =>
                  /\ out'.call.op # "placeTrailingStop"
                  /\ \E j \in 1..Len(out'.logs) : out'.logs[j] = "ERROR"
                  /\ scan'[s].pc \notin {"orderSleep", "trail"}
                  /\ scan'[s].pc # "idle" => scan'[s].d > scan[s].d
      ]_vars

\* the exchange accepted the entry order of a decision and, after the pause,
\* the trailing stop of the same instrument is sent
EntryCallOrderWitness ==
    /\ out.step = "trailingStop"
    /\ out.call.op = "placeTrailingStop"
    /\ ~config.isSimulation
    /\ \E s \in Slots :
          /\ scan[s].pc = "trail"
          /\ scan[s].d = 2
          /\ out.call.arg = EntryOf(scan[s]).instId

-----------------------------------------------------------------------------
(* The order that closes a position *)

\* okxService.ts:178-186: the body of the order request
OrderBody(order) ==
    [instId |-> order.instId,
     side |-> IF order.action = "BUY" THEN "buy" ELSE "sell",
     posSide |-> IF order.action = "BUY" THEN "long" ELSE "short",
     sz |-> order.size,
     reduceOnly |-> order.action = "CLOSE"]

\* the side of the order that reduces a position
ClosingSide(posSide) == IF posSide = "long" THEN "sell" ELSE "buy"

\* C31: the order sent for a CLOSE decision on an instrument with an open
\* position is reduce-only, names the posSide of the held position with the
\* closing side (long: sell, short: buy), and its size is the size of the
\* held position.
CloseMatchesPosition ==
    (/\ out.slot # 0
     /\ out.step = "closeOrder"
     /\ scan[out.slot].pc = "closeOrder"
     /\ FindPos(accountData.v.positions, CurrentDecision(out.slot).instId, 1) # 0)
        => LET dec == CurrentDecision(out.slot)
               held == accountData.v.positions[
                           FindPos(accountData.v.positions, dec.instId, 1)]
               body == OrderBody(dec)
           IN  /\ dec.action = "CLOSE"
               /\ out.call = OrderCall(dec)
               /\ body.reduceOnly
               /\ body.instId = held.instId
               /\ body.posSide = held.posSide
               /\ body.side = ClosingSide(held.posSide)
               /\ body.sz = held.pos

-----------------------------------------------------------------------------
(* The trade list of a replay *)

\* trade j of the list is an entry when j is odd and a CLOSE when j is even
Alternates(trades) ==
    \A j \in 1..Len(trades) :
        IF j % 2 = 1 THEN trades[j].type \in {"BUY", "SELL"}
                     ELSE trades[j].type = "CLOSE"

\* the open position is the one the last trade of the list entered
OpenedByLast(b) ==
    LET entry == b.trades[Len(b.trades)]
    IN  /\ b.position.v.side = (IF entry.type = "BUY" THEN "long" ELSE "short")
        /\ b.position.v.entryPrice = entry.price
        /\ FeeOf(b.position.v.margin) = entry.fee

\* C32: in a replay there is one position slot, open exactly when the trade
\* list ends with an entry; the list alternates entry and CLOSE starting with
\* an entry; a CLOSE closes the position of the entry right before it (it is
\* added while that position is open and charges the fee of its margin); and
\* one candle adds at most one trade, so a position closed on a candle is not
\* reopened on it.
TradesAlternate ==
    [][ Replayed =>
          /\ Alternates(backtest'.trades)
          /\ backtest'.position.null <=> Len(backtest'.trades) % 2 = 0
          /\ ~backtest'.position.null => OpenedByLast(backtest')
          /\ Len(backtest'.trades) <= Len(backtest.trades) + 1
          /\ \A j \in 1..Len(backtest.trades) :
                backtest'.trades[j] = backtest.trades[j]
          /\ Len(backtest'.trades) > Len(backtest.trades) =>
                LET last == backtest'.trades[Len(backtest'.trades)]
                IN  IF last.type = "CLOSE"
                    THEN /\ ~backtest.position.null
                         /\ backtest'.position.null
                         /\ last.fee = FeeOf(backtest.position.v.margin)
                         /\ last.fee = backtest.trades[Len(backtest.trades)].fee
                    ELSE backtest.position.null
      ]_vars

\* a replay of the constants.ts variant entered, was stopped out, and entered
\* again on a later candle
TradesAlternateWitness ==
    /\ backtest.phase = "running"
    /\ backtest.variant = "constants"
    /\ Len(backtest.trades) = 3
    /\ backtest.trades[2].reason = "stopLoss"
    /\ ~backtest.position.null

-----------------------------------------------------------------------------
(* The decision feed and the log buffer (server.ts:24-26, 34-39, 92-96) *)

\* server.ts:96 and server.ts:37
HISTORY_CAP == 1000
LOG_CAP == 500

\* entries pushed beyond the larger need of the two caps before passes stop
MaxExtra == 2

\* server.ts:36-37: logs.push(log); if (logs.length > 500) logs = logs.slice(-500)
PushLog(logs, log) ==
    LET pushed == Append(logs, log)
    IN  IF Len(pushed) > LOG_CAP
        THEN SubSeq(pushed, Len(pushed) - LOG_CAP + 1, Len(pushed))
        ELSE pushed

\* server.ts:95-96: decisionHistory.push(decision); if (length > 1000) shift()
PushDecision(history, decision) ==
    LET pushed == Append(history, decision)
    IN  IF Len(pushed) > HISTORY_CAP THEN Tail(pushed) ELSE pushed

\* a HOLD decision is not put in the cache
CacheUnlessHold(latest, decision) ==
    IF decision.action = "HOLD" THEN latest
    ELSE [latest EXCEPT ![decision.coin] = decision]

\* server.ts:94: latestDecisions[decision.coin] = decision
Cache(latest, decision) == [latest EXCEPT ![decision.coin] = decision]

\* what a run of passes looks like: the coins whose market data every pass
\* gets (okxService.ts:115-139 skips a coin whose fetch failed)
Shapes == {"both", "btcOnly", "alternate"}

CoinsOfPass(shape, pass) ==
    IF shape = "both" \/ (shape = "alternate" /\ pass % 2 = 1)
    THEN <<"BTC", "ETH">> ELSE <<"BTC">>

NoDecision == [coin |-> "", action |-> "", pass |-> 0, n |-> 0]

\* the feed is followed from the start of the server
FeedStarted(shape, trade) ==
    /\ feed.phase = "none"
    /\ feed' = [phase |-> "fed", shape |-> shape, trade |-> trade,
                logs |-> <<>>, logged |-> 0,
                decisionHistory |-> <<>>, pushed |-> 0,
                latest |-> [c \in Coins |-> NoDecision],
                pass |-> 0, pending |-> <<>>,
                produced |-> [c \in Coins |-> 0]]
    /\ UNCHANGED <<progVars, now, exchange, out, analysis, algo, backtest, sizer>>

\* server.ts:87-90: a pass logs its start and gets one decision per coin of
\* the market data
PassStarted ==
    /\ feed.phase = "fed"
    /\ feed.pending = <<>>
    /\ \/ feed.pushed < HISTORY_CAP + MaxExtra
       \/ feed.logged < LOG_CAP + MaxExtra
    /\ LET pass == feed.pass + 1
           coins == CoinsOfPass(feed.shape, pass)
       IN  feed' = [feed EXCEPT
                       !.pass = pass,
                       !.pending = coins,
                       !.produced = [c \in Coins |->
                                        IF \E j \in 1..Len(coins) : coins[j] = c
                                        THEN pass ELSE @[c]],
                       !.logs = PushLog(@, [type |-> "INFO", n |-> feed.logged + 1]),
                       !.logged = @ + 1]
    /\ UNCHANGED <<progVars, now, exchange, out, analysis, algo, backtest, sizer>>

\* server.ts:92-96, then 98-157: the next decision of the pass enters the
\* cache and the history; a decision that trades logs its outcome
DecisionFed ==
    /\ feed.phase = "fed"
    /\ feed.pending # <<>>
    /\ LET decision == [coin |-> Head(feed.pending),
                        action |-> IF feed.trade THEN "BUY" ELSE "HOLD",
                        pass |-> feed.pass, n |-> feed.pushed + 1]
       IN  feed' = [feed EXCEPT
                       !.pending = Tail(@),
                       !.latest = Cache(@, decision),
                       !.decisionHistory = PushDecision(@, decision),
                       !.pushed = @ + 1,
                       !.logs = IF feed.trade
                                THEN PushLog(@, [type |-> "TRADE", n |-> feed.logged + 1])
                                ELSE @,
                       !.logged = IF feed.trade THEN @ + 1 ELSE @]
    /\ UNCHANGED <<progVars, now, exchange, out, analysis, algo, backtest, sizer>>

FeedNext ==
    \/ /\ feed.phase = "none"
       /\ \E shape \in Shapes, trade \in BOOLEAN : FeedStarted(shape, trade)
    \/ PassStarted
    \/ DecisionFed

SpecFeed == Init /\ [][FeedNext]_vars

\* the buffer holds the latest entries pushed, oldest first, up to cap
LatestOf(buffer, count, cap) ==
    /\ Len(buffer) = (IF count > cap THEN cap ELSE count)
    /\ \A j \in 1..Len(buffer) : buffer[j].n = count - Len(buffer) + j

\* C33: between passes the decision cache holds for every coin the decision
\* of the most recent pass that produced one for it; the decision history
\* never holds more than 1000 entries and the log buffer never more than 500,
\* each holding the latest entries pushed in their order (the oldest are
\* the ones dropped).
FeedBounded ==
    feed.phase = "fed" =>
        /\ feed.pending = <<>> =>
              \A c \in Coins :
                  /\ feed.latest[c].pass = feed.produced[c]
                  /\ feed.produced[c] > 0 => feed.latest[c].coin = c
        /\ Len(feed.decisionHistory) <= HISTORY_CAP
        /\ LatestOf(feed.decisionHistory, feed.pushed, HISTORY_CAP)
        /\ Len(feed.logs) <= LOG_CAP
        /\ LatestOf(feed.logs, feed.logged, LOG_CAP)

\* both buffers have dropped entries, and the cache of ETH is older than the
\* latest pass, which got BTC only
FeedBoundedWitness ==
    /\ feed.phase = "fed"
    /\ feed.shape = "alternate"
    /\ feed.pending = <<>>
    /\ feed.pushed > HISTORY_CAP
    /\ feed.logged > LOG_CAP
    /\ Len(feed.decisionHistory) = HISTORY_CAP
    /\ Len(feed.logs) = LOG_CAP
    /\ feed.latest["ETH"].pass = feed.pass - 1
    /\ feed.latest["BTC"].pass = feed.pass

====
